---- MODULE Spec2Model ----
(* Verification model of the ADgent storyboard-to-video pipeline.            *)
(*                                                                         *)
(*   Spec          one call of generate_scene_image (app/api/routes.py) as *)
(*                 made by regenerate_scene: character analysis of the     *)
(*                 scene, reference selection, the fallback cascade and    *)
(*                 the two file writes.                                    *)
(*   SpecBatch     the batch loops of generate_scenes and                  *)
(*                 generate_all_storyboard_images.                         *)
(*   SpecAssembly  process_scenes_and_join and join_videos                 *)
(*                 (ffmpeg_stitched.py).                                   *)
(*   SpecNarration generate_voiceover and generate_all_voiceovers          *)
(*                 (tts_service.py).                                       *)
(*   SpecAnalysis  analyze_character_usage and the calls it awaits.        *)
(*   SpecRequest   the precondition checks of the endpoints.               *)
(*   SpecServer    a generation request, generate_final_video and one more *)
(*                 request on the single server process.                   *)
(*   SpecSlug      save_draft and get_draft with safe_slug and             *)
(*                 website_to_slug.                                        *)
(*   SpecRefs      one call of find_character_reference_scenes.            *)
(*   SpecAssets    the files written by generate_scene_image and           *)
(*                 generate_voiceover for the scenes of two slugs.         *)
(*   SpecAds       generate_ad_ideas with the scraper subprocess           *)
(*                 (ad_pipeline.py).                                       *)
(*   SpecPair      two generate_final_video requests for different slugs   *)
(*                 running process_scenes_and_join at the same time.       *)
(*   SpecWebsite   website_to_slug applied to a website parameter and to   *)
(*                 its own result.                                         *)
EXTENDS Integers, Sequences, FiniteSets, TLC

\* ------------------------------------------------------------------ bounds
\* Scenes of the storyboard (scene numbers 1..NumScenes).
NumScenes == 4
\* Longest "reference_scenes" list the text-completion service answers with.
MaxAnswerLen == 2
\* char_asset*.png files present under images/.
NumCharAssets == 1

\* routes.py:378
MAX_REFERENCE_IMAGES == 2

SceneNumbers == 1..NumScenes

\* Entries of the storyboard handed to generate_all_voiceovers.
NumNarrated == 3

NarratedScenes == 1..NumNarrated

\* ---------------------------------------------------------------- variables
VARIABLES
    scene_index,        \* generate_scene_image: scene_index (1-based)
    include_main_char,  \* scene_character_info[scene_index-1]["include_main_character"]
    reference_scenes,   \* scene_character_info[scene_index-1]["reference_scenes"] (0-based)
    images,             \* generated_scenes/<slug>/images/scene<N>.png, per N
    mirror,             \* images/<slug>/images/scene<N>.png, per N
    content_parts,      \* the reference images sent with strategy A
    pc,                 \* position inside regenerate_scene / generate_scene_image
    candidate,          \* finish reason of the local variable `candidate`
    attempts,           \* the generate_content calls made so far
    \* -- the batch endpoints
    endpoint,           \* the handler that runs
    described,          \* per scene: the entry has a non-empty scene_description
    batch_pc,           \* position inside the handler
    i,                  \* the loop variable of the scene loop
    results,            \* the local list `results`
    outcome,            \* per scene: how its generate_scene_image call ended
    response,           \* what the handler answered
    \* -- assembly
    keep_original_audio, \* process_scenes_and_join: the caller's argument
    video_dir,          \* scene numbers N with <video_dir>/scene<N>.mp4
    audio_dir,          \* scene numbers N with <audio_dir>/scene<N>_voiceover.mp3
    scenes,             \* process_scenes_and_join: the list `scenes`
    temp_videos,        \* process_scenes_and_join: the list `temp_videos`
    temp_files,         \* indices k with temp_scene_<k>.mp4 in the working directory
    segments,           \* per written temp_scene_<k>.mp4: what it plays
    concat_file,        \* temp_filelist.txt exists in the working directory
    final_output,       \* the final video: absent, or the clips it plays in order
    asm_pc,             \* position inside process_scenes_and_join
    \* -- narration (tts_service.py)
    nar_caller,         \* generate_all_voiceovers, or generate_voiceover called alone
    nar_pc,             \* position inside generate_all_voiceovers / generate_voiceover
    nar_i,              \* generate_all_voiceovers: the loop variable i
    nar_scene,          \* generate_voiceover: scene_index
    voice_text,         \* generate_voiceover: text
    max_duration,       \* generate_voiceover: max_duration (0 is None)
    audio_duration,     \* generate_voiceover: audio_duration (0 is None)
    audio_files,        \* <output_dir>/scene<N>_voiceover.mp3, per N
    synth_duration,     \* seconds of audio the service streamed for this call
    true_duration,      \* seconds of audio in the file of the current scene
    tmp_file,           \* scene<N>_voiceover.tmp.mp3 of the current scene exists
    tts_calls,          \* scenes for which text_to_speech.convert was called
    nar_results,        \* generate_all_voiceovers: the list `results`
    last_result,        \* the dict generate_voiceover returned last
    \* -- character analysis (analyze_character_usage)
    ana_pc,             \* position inside analyze_character_usage
    ana_i,              \* the loop variable i (0-based)
    character_mentions, \* the keys of the dict character_mentions
    scene_character_info, \* the dict scene_character_info
    \* -- the preconditions of the endpoints
    req_endpoint,       \* the handler that was called
    req_pc,             \* position inside the handler
    slug_is_default,    \* website_to_slug(website) = "default"
    has_payload,        \* generate_scenes: payload.storyboard is given
    slug_storyboard,    \* images/<slug>/generated_storyboard.json exists
    legacy_storyboard,  \* STORYBOARD_PATH exists
    slug_videos,        \* generated_scenes/<slug>/video holds a scene*.mp4
    default_videos,     \* generated_scenes/default/video holds a scene*.mp4
    req_status,         \* the HTTP status answered (0: none yet)
    req_work,           \* the handler started generating or assembling
    req_video_dir,      \* generate_final_video: the slug of video_dir
    req_audio_dir,      \* generate_final_video: the slug of audio_dir
    final_video_path,   \* generate_final_video: the slug of final_video_path
    default_dir_read,   \* generate_final_video listed the default slug's clips
    \* -- two or three requests on one server process
    srv_kind,           \* the generation handler: generate_scenes or generate_veo3_videos
    loop_thread,        \* what runs on the event-loop thread
    srv_gen,            \* position of the generation request
    srv_awaits,         \* awaited completion calls of the analysis still to come
    srv_scenes,         \* per scene of the generation request: its state
    srv_asm,            \* position of the generate_final_video request
    srv_other,          \* position of one more request (GET /health)
    \* -- the draft endpoints (save_draft, get_draft)
    draft_endpoint,     \* the handler that was called
    draft_arg,          \* the slug of the request, as sent
    draft_pc,           \* position inside the handler
    draft_slug,         \* save_draft: slug; get_draft: safe
    draft_root,         \* the directory draft_root the handler made or looked up
    draft_status,       \* the HTTP status answered (0: none yet)
    \* -- one call of find_character_reference_scenes
    ref_idx,            \* current_scene_idx (0-based)
    ref_reply,          \* what the completion call gives back
    ref_pc,             \* position inside the function
    ref_calls,          \* completion calls made
    ref_result,         \* the list returned
    \* -- the asset files of the slugs
    asset_files,        \* per path: absent, or the operation that wrote it last
    asset_op,           \* the synthesis or narration that runs
    asset_pc,           \* its position
    asset_ops,           \* operations started so far
    \* -- generate_ad_ideas (ad_pipeline.py)
    ad_pc,              \* position inside generate_ad_ideas and what it awaits
    ad_status,          \* the HTTP status answered (0: none yet)
    scraper,            \* the node subprocess: none, running, exited, killed
    elapsed,            \* seconds wait_for(process.communicate()) has waited (0 after it returned)
    ideas_len,          \* len(ad_ideas) of the text service's answer
    ad_ideas,           \* the entries of ad_ideas the loop has read
    ad_results,         \* the local list `results`
    ad_calls,           \* the text call and the image calls made, in order
    ad_returned,         \* the list the request returned
    \* -- two generate_final_video requests for different slugs
    pair_pc,            \* per slug: position inside process_scenes_and_join
    pair_clips,         \* per slug: the number of clips in its video directory
    pair_temp,          \* per slug: len(temp_videos) of its run
    cwd_temp,           \* per k: what temp_scene_<k>.mp4 of the working directory plays
    cwd_list,           \* temp_filelist.txt of the working directory
    pair_final,          \* per slug: the clips its final_video.mp4 plays
    \* -- a request with a website parameter, and a later one with its slug
    web_pc,             \* position: request, slugged, again
    web_arg,            \* the website parameter of the request
    web_slug,           \* slug = website_to_slug(website)
    web_again           \* website_to_slug(slug) of the later request

synthVars == <<scene_index, include_main_char, reference_scenes, images, mirror,
               content_parts, pc, candidate, attempts>>

batchVars == <<endpoint, described, batch_pc, i, results, outcome, response>>

asmVars == <<keep_original_audio, video_dir, audio_dir, scenes, temp_videos,
             temp_files, segments, concat_file, final_output, asm_pc>>

narVars == <<nar_caller, nar_pc, nar_i, nar_scene, voice_text, max_duration,
             audio_duration, audio_files, synth_duration, true_duration,
             tmp_file, tts_calls, nar_results, last_result>>

anaVars == <<ana_pc, ana_i, character_mentions, scene_character_info>>

reqVars == <<req_endpoint, req_pc, slug_is_default, has_payload,
             slug_storyboard, legacy_storyboard, slug_videos, default_videos,
             req_status, req_work, req_video_dir, req_audio_dir,
             final_video_path, default_dir_read>>

dirVars == <<req_video_dir, req_audio_dir, final_video_path, default_dir_read>>

srvVars == <<srv_kind, loop_thread, srv_gen, srv_awaits, srv_scenes, srv_asm,
             srv_other>>

draftVars == <<draft_endpoint, draft_arg, draft_pc, draft_slug, draft_root,
               draft_status>>

refVars == <<ref_idx, ref_reply, ref_pc, ref_calls, ref_result>>

assetVars == <<asset_files, asset_op, asset_pc, asset_ops>>

adVars == <<ad_pc, ad_status, scraper, elapsed, ideas_len, ad_ideas,
            ad_results, ad_calls, ad_returned>>

pairVars == <<pair_pc, pair_clips, pair_temp, cwd_temp, cwd_list, pair_final>>

webVars == <<web_pc, web_arg, web_slug, web_again>>

vars == <<synthVars, batchVars, asmVars, narVars, anaVars, reqVars, srvVars,
          draftVars, refVars, assetVars, adVars, pairVars, webVars>>

\* ------------------------------------------------------------ file states
\* A file is absent, holds a complete earlier artifact ("old"), has been
\* opened with mode "wb" and not yet written ("partial"), or holds the
\* complete artifact of this call ("new").
FileStates == {"absent", "old", "partial", "new"}

\* Path.exists()
Exists(files, n) == n \in DOMAIN files /\ files[n] # "absent"

\* ------------------------------------------------ character analysis (4.1)
\* One element of the JSON list "reference_scenes" as json.loads gives it: a
\* number without fraction (a Python int), true or false (a Python bool, for
\* which isinstance(num, int) holds and which counts as 1 or 0), or any other
\* value (float, string, null, list, object).
RawValues ==
    {[isInt |-> TRUE, val |-> v, json |-> "integer"] : v \in -1..(NumScenes + 1)}
        \cup {[isInt |-> TRUE, val |-> 1, json |-> "true"],
              [isInt |-> TRUE, val |-> 0, json |-> "false"],
              [isInt |-> FALSE, val |-> 0, json |-> "other"]}

RawLists == UNION {[1..n -> RawValues] : n \in 0..MaxAnswerLen}

\* What the chat completion gives back: an error or unparsable JSON, a JSON
\* object whose "reference_scenes" is not a list (a number or null cannot be
\* iterated, a string or an object yields strings), or a list.
ServiceReplies ==
    {[kind |-> "error", list |-> <<>>], [kind |-> "nonlist", list |-> <<>>]}
        \cup {[kind |-> "list", list |-> l] : l \in RawLists}

\* routes.py:315-318, the list comprehension
FilterRefsOffByOne(current_scene_idx, nums) ==
    LET kept == SelectSeq(nums, LAMBDA x :
                    x.isInt /\ 0 < x.val /\ x.val <= current_scene_idx + 1)
    IN  [k \in 1..Len(kept) |-> kept[k].val - 1]

FilterRefs(current_scene_idx, nums) ==
    LET kept == SelectSeq(nums, LAMBDA x :
                    x.isInt /\ 0 < x.val /\ x.val <= current_scene_idx)
    IN  [k \in 1..Len(kept) |-> kept[k].val - 1]

find_character_reference_scenes(current_scene_idx, reply) ==
    IF current_scene_idx = 0 THEN <<>>
    ELSE IF reply.kind \in {"error", "nonlist"} THEN <<>>
    ELSE FilterRefs(current_scene_idx, reply.list)

\* ------------------------------------------------ reference budgeter (4.2)
CharPart(k) == [kind |-> "char", n |-> k]
ScenePart(n) == [kind |-> "scene", n |-> n]

InSeq(x, s) == \E k \in 1..Len(s) : s[k] = x

\* routes.py:359-363
CharParts(include) ==
    IF include THEN [k \in 1..NumCharAssets |-> CharPart(k)] ELSE <<>>

\* routes.py:384-404 without the test of scene_path.exists()
RECURSIVE RecentLoopNoExists(_, _, _, _, _)
RecentLoopNoExists(idxs, parts, total_refs, refs, files) ==
    IF idxs = <<>> THEN parts
    ELSE LET idx == Head(idxs) IN
         IF total_refs >= MAX_REFERENCE_IMAGES THEN parts
         ELSE IF InSeq(idx - 1, refs)
              THEN RecentLoopNoExists(Tail(idxs), parts, total_refs, refs, files)
         ELSE IF idx > 0
              THEN RecentLoopNoExists(Tail(idxs), Append(parts, ScenePart(idx)),
                                      total_refs + 1, refs, files)
         ELSE RecentLoopNoExists(Tail(idxs), parts, total_refs, refs, files)

\* routes.py:384-404, the loop over recent_scene_indices
RECURSIVE RecentLoop(_, _, _, _, _)
RecentLoop(idxs, parts, total_refs, refs, files) ==
    IF idxs = <<>> THEN parts
    ELSE LET idx == Head(idxs) IN
         IF total_refs >= MAX_REFERENCE_IMAGES THEN parts
         ELSE IF InSeq(idx - 1, refs)
              THEN RecentLoop(Tail(idxs), parts, total_refs, refs, files)
         ELSE IF idx > 0 /\ Exists(files, idx)
              THEN RecentLoop(Tail(idxs), Append(parts, ScenePart(idx)),
                              total_refs + 1, refs, files)
         ELSE RecentLoop(Tail(idxs), parts, total_refs, refs, files)

\* routes.py:367-406 with the cap applied to the advisory references too
RECURSIVE RefLoopCapped(_, _, _, _, _)
RefLoopCapped(rest, parts, refs, idx, files) ==
    IF rest = <<>> THEN parts
    ELSE LET ref_scene_num == Head(rest) + 1
             p1 == IF /\ Exists(files, ref_scene_num)
                      /\ Len(parts) < MAX_REFERENCE_IMAGES
                   THEN Append(parts, ScenePart(ref_scene_num))
                   ELSE parts
             p2 == RecentLoop(<<idx - 1, idx - 2>>, p1, Len(p1), refs, files)
         IN  RefLoopCapped(Tail(rest), p2, refs, idx, files)

\* routes.py:367-406, the loop over reference_scenes; the loop over the two
\* preceding scenes is nested in its body
RECURSIVE RefLoop(_, _, _, _, _)
RefLoop(rest, parts, refs, idx, files) ==
    IF rest = <<>> THEN parts
    ELSE LET ref_scene_num == Head(rest) + 1
             p1 == IF Exists(files, ref_scene_num)
                   THEN Append(parts, ScenePart(ref_scene_num))
                   ELSE parts
             p2 == RecentLoop(<<idx - 1, idx - 2>>, p1, Len(p1), refs, files)
         IN  RefLoop(Tail(rest), p2, refs, idx, files)

\* routes.py:348-406
BuildContentParts(idx, include, refs, files) ==
    RefLoop(refs, CharParts(include), refs, idx, files)

SceneRefs(parts) == SelectSeq(parts, LAMBDA p : p.kind = "scene")

\* ------------------------------------------------ fallback cascade (4.3)
\* What one generate_content call gives back: it raises, it returns no
\* candidates, or it returns a candidate with this finish reason ("NO_REASON":
\* finish_reason is None; "SAFETY": any reason other than STOP and IMAGE_OTHER).
FinishReasons == {"STOP", "IMAGE_OTHER", "SAFETY", "NO_REASON"}
Responses == {"raise", "empty"} \cup FinishReasons

Terminal == {"SUCCESS", "FAILURE"}

\* routes.py:505-510
PreB(idx, files) == idx > 1 /\ Exists(files, idx - 1)

\* routes.py:533-539
PreC(refs, files) == refs # <<>> /\ Exists(files, refs[1] + 1)

\* routes.py:562: None.name raises AttributeError, caught at line 645
EnterD(cand) ==
    IF cand = "NO_REASON" THEN "FAILURE"
    ELSE IF cand # "STOP" THEN "D" ELSE "extract"

\* routes.py:533-539; pre_c is PreC of the scene
EnterC(cand, pre_c) ==
    IF cand = "NO_REASON" THEN "FAILURE"
    ELSE IF cand # "STOP" /\ pre_c THEN "C"
    ELSE EnterD(cand)

\* routes.py:505-510; pre_b is PreB of the scene
EnterB(cand, pre_b, pre_c) ==
    IF pre_b THEN "B" ELSE EnterC(cand, pre_c)

\* routes.py:496-500 and 589-594
SecondCheck(cand, pre_b, pre_c) ==
    IF cand \notin {"NO_REASON", "STOP"}
    THEN IF cand = "IMAGE_OTHER" THEN EnterB(cand, pre_b, pre_c)
         ELSE "FAILURE"
    ELSE "extract"

\* routes.py:443-494 without the retry of lines 471-489
AfterANoRetry(r, pre_b, pre_c) ==
    IF r \in {"raise", "empty"} THEN [pc |-> "FAILURE", candidate |-> "none"]
    ELSE [pc |-> SecondCheck(r, pre_b, pre_c), candidate |-> r]

\* routes.py:443-494: the outcome of the first call
AfterA(r, pre_b, pre_c) ==
    IF r \in {"raise", "empty"} THEN [pc |-> "FAILURE", candidate |-> "none"]
    ELSE IF r \notin {"NO_REASON", "STOP"}
         THEN IF r = "IMAGE_OTHER"
              THEN [pc |-> "A_retry", candidate |-> r]
              ELSE [pc |-> "FAILURE", candidate |-> r]
    ELSE [pc |-> SecondCheck(r, pre_b, pre_c), candidate |-> r]

\* routes.py:474-489, then the check of line 496
AfterARetry(r, cand, pre_b, pre_c) ==
    IF r \in {"raise", "empty"} THEN [pc |-> "FAILURE", candidate |-> cand]
    ELSE [pc |-> SecondCheck(r, pre_b, pre_c), candidate |-> r]

\* routes.py:514-530
AfterB(r, cand, pre_c) ==
    LET c == IF r \in {"raise", "empty"} THEN cand ELSE r
    IN  [pc |-> EnterC(c, pre_c), candidate |-> c]

\* routes.py:543-559
AfterC(r, cand) ==
    LET c == IF r \in {"raise", "empty"} THEN cand ELSE r
    IN  [pc |-> EnterD(c), candidate |-> c]

\* routes.py:564-588
AfterDRetries(r, cand) ==
    IF r = "raise" THEN [pc |-> "FAILURE", candidate |-> cand]
    ELSE IF r = "empty" THEN [pc |-> "extract", candidate |-> cand]
    ELSE IF r = "STOP" THEN [pc |-> "extract", candidate |-> r]
    ELSE [pc |-> "D", candidate |-> r]

AfterD(r, cand) ==
    IF r = "raise" THEN [pc |-> "FAILURE", candidate |-> cand]
    ELSE IF r = "empty" THEN [pc |-> "extract", candidate |-> cand]
    ELSE IF r = "STOP" THEN [pc |-> "extract", candidate |-> r]
    ELSE [pc |-> "FAILURE", candidate |-> r]

\* routes.py:507-512, fallback_parts of strategy 1 (B)
PartsBTwoRecent(idx) ==
    IF idx > 2 THEN <<ScenePart(idx - 1), ScenePart(idx - 2)>>
    ELSE <<ScenePart(idx - 1)>>

PartsB(idx) == <<ScenePart(idx - 1)>>

\* routes.py:535-541, fallback_parts of strategy 2 (C)
PartsC(refs) == <<ScenePart(refs[1] + 1)>>

\* One call: the strategy, the images sent and what came back.
Attempt(s, sent, r) == [strategy |-> s, sent |-> sent, outcome |-> r]

\* ------------------------------------------------------------------ Spec
InitSynth ==
    /\ scene_index \in SceneNumbers
    /\ images \in [SceneNumbers -> {"absent", "old"}]
    /\ mirror \in {[n \in SceneNumbers |-> f] : f \in {"absent", "old"}}
    /\ include_main_char = FALSE
    /\ reference_scenes = <<>>
    /\ content_parts = <<>>
    /\ pc = "analyze"
    /\ candidate = "none"
    /\ attempts = <<>>

\* routes.py:176-194, the entry of this scene; then routes.py:348-406
Analyze ==
    /\ pc = "analyze"
    /\ \E inc \in BOOLEAN, reply \in ServiceReplies :
         LET refs == find_character_reference_scenes(scene_index - 1, reply) IN
         /\ include_main_char' = inc
         /\ reference_scenes' = refs
         /\ content_parts' = BuildContentParts(scene_index, inc, refs, images)
    /\ pc' = "A"
    /\ UNCHANGED <<batchVars, asmVars, narVars, anaVars, reqVars, srvVars,
                   draftVars, refVars, assetVars, webVars, pairVars, adVars>>
    /\ UNCHANGED <<scene_index, images, mirror, candidate, attempts>>

\* routes.py:180 and 732-733: should_include_character raises HTTPException
\* when its completion call fails; regenerate_scene answers 500 (line 1024)
\* and generate_scene_image is not called
AnalyzeFails ==
    /\ pc = "analyze"
    /\ pc' = "ERROR"
    /\ UNCHANGED <<batchVars, asmVars, narVars, anaVars, reqVars, srvVars,
                   draftVars, refVars, assetVars, webVars, pairVars, adVars>>
    /\ UNCHANGED <<scene_index, include_main_char, reference_scenes, images,
                   mirror, content_parts, candidate, attempts>>

Call(s, sent, r, next) ==
    /\ attempts' = Append(attempts, Attempt(s, sent, r))
    /\ pc' = next.pc
    /\ candidate' = next.candidate
    /\ UNCHANGED <<batchVars, asmVars, narVars, anaVars, reqVars, srvVars,
                   draftVars, refVars, assetVars, webVars, pairVars, adVars>>
    /\ UNCHANGED <<scene_index, include_main_char, reference_scenes, images,
                   mirror, content_parts>>

StrategyA ==
    /\ pc = "A"
    /\ \E r \in Responses :
         Call("A", content_parts, r,
              AfterA(r, PreB(scene_index, images),
                     PreC(reference_scenes, images)))

StrategyARetry ==
    /\ pc = "A_retry"
    /\ \E r \in Responses :
         Call("A_retry", <<>>, r,
              AfterARetry(r, candidate, PreB(scene_index, images),
                          PreC(reference_scenes, images)))

StrategyB ==
    /\ pc = "B"
    /\ \E r \in Responses :
         Call("B", PartsB(scene_index), r,
              AfterB(r, candidate, PreC(reference_scenes, images)))

StrategyC ==
    /\ pc = "C"
    /\ \E r \in Responses :
         Call("C", PartsC(reference_scenes), r, AfterC(r, candidate))

StrategyD ==
    /\ pc = "D"
    /\ \E r \in Responses : Call("D", <<>>, r, AfterD(r, candidate))

\* routes.py:597-633, the mutation that opens out_path before it looks for
\* the image data
ExtractOpensFirst ==
    /\ pc = "extract"
    /\ images' = [images EXCEPT ![scene_index] = "partial"]
    /\ \E has_data \in BOOLEAN : pc' = IF has_data THEN "write_out" ELSE "FAILURE"
    /\ UNCHANGED <<batchVars, asmVars, narVars, anaVars, reqVars, srvVars,
                   draftVars, refVars, assetVars, webVars, adVars, pairVars>>
    /\ UNCHANGED <<scene_index, include_main_char, reference_scenes, mirror,
                   content_parts, candidate, attempts>>

\* routes.py:597-624: the candidate carries inline image data or not
Extract ==
    /\ pc = "extract"
    /\ \E has_data \in BOOLEAN : pc' = IF has_data THEN "open_out" ELSE "FAILURE"
    /\ UNCHANGED <<batchVars, asmVars, narVars, anaVars, reqVars, srvVars,
                   draftVars, refVars, assetVars, webVars, pairVars, adVars>>
    /\ UNCHANGED <<scene_index, include_main_char, reference_scenes, images,
                   mirror, content_parts, candidate, attempts>>

\* routes.py:632, open(path, "wb") of out_path
OpenOut ==
    /\ pc = "open_out"
    /\ images' = [images EXCEPT ![scene_index] = "partial"]
    /\ pc' = "write_out"
    /\ UNCHANGED <<batchVars, asmVars, narVars, anaVars, reqVars, srvVars,
                   draftVars, refVars, assetVars, webVars, pairVars, adVars>>
    /\ UNCHANGED <<scene_index, include_main_char, reference_scenes, mirror,
                   content_parts, candidate, attempts>>

\* routes.py:633, f.write(image_bytes) to out_path
WriteOut ==
    /\ pc = "write_out"
    /\ images' = [images EXCEPT ![scene_index] = "new"]
    /\ pc' = "open_mirror"
    /\ UNCHANGED <<batchVars, asmVars, narVars, anaVars, reqVars, srvVars,
                   draftVars, refVars, assetVars, webVars, pairVars, adVars>>
    /\ UNCHANGED <<scene_index, include_main_char, reference_scenes, mirror,
                   content_parts, candidate, attempts>>

OpenMirror ==
    /\ pc = "open_mirror"
    /\ mirror' = [mirror EXCEPT ![scene_index] = "partial"]
    /\ pc' = "write_mirror"
    /\ UNCHANGED <<batchVars, asmVars, narVars, anaVars, reqVars, srvVars,
                   draftVars, refVars, assetVars, webVars, pairVars, adVars>>
    /\ UNCHANGED <<scene_index, include_main_char, reference_scenes, images,
                   content_parts, candidate, attempts>>

WriteMirror ==
    /\ pc = "write_mirror"
    /\ mirror' = [mirror EXCEPT ![scene_index] = "new"]
    /\ pc' = "SUCCESS"
    /\ UNCHANGED <<batchVars, asmVars, narVars, anaVars, reqVars, srvVars,
                   draftVars, refVars, assetVars, webVars, pairVars, adVars>>
    /\ UNCHANGED <<scene_index, include_main_char, reference_scenes, images,
                   content_parts, candidate, attempts>>

NextSynth ==
    \/ Analyze
    \/ AnalyzeFails
    \/ StrategyA
    \/ StrategyARetry
    \/ StrategyB
    \/ StrategyC
    \/ StrategyD
    \/ Extract
    \/ OpenOut
    \/ WriteOut
    \/ OpenMirror
    \/ WriteMirror

\* The variables of the other handlers, while they do not run.
IdleSynth ==
    /\ scene_index = 1
    /\ include_main_char = FALSE
    /\ reference_scenes = <<>>
    /\ content_parts = <<>>
    /\ pc = "idle"
    /\ candidate = "none"
    /\ attempts = <<>>

IdleBatch ==
    /\ endpoint = "regenerate_scene"
    /\ described = [n \in SceneNumbers |-> TRUE]
    /\ batch_pc = "idle"
    /\ i = 0
    /\ results = <<>>
    /\ outcome = [n \in SceneNumbers |-> "none"]
    /\ response = [status |-> 0, successful |-> 0, failed |-> 0]

IdleAssembly ==
    /\ keep_original_audio = TRUE
    /\ segments = <<>>
    /\ video_dir = {}
    /\ audio_dir = {}
    /\ scenes = <<>>
    /\ temp_videos = <<>>
    /\ temp_files = {}
    /\ concat_file = FALSE
    /\ final_output = <<>>
    /\ asm_pc = "idle"

\* tts_service.py:77-86 without the fields that repeat the arguments
NoResult == [success |-> FALSE, clipped_to_video |-> FALSE, duration_seconds |-> 0]

IdleNarration ==
    /\ nar_caller = "none"
    /\ nar_pc = "idle"
    /\ nar_i = 0
    /\ nar_scene = 0
    /\ voice_text = <<>>
    /\ max_duration = 0
    /\ audio_duration = 0
    /\ audio_files = [n \in NarratedScenes |-> "absent"]
    /\ synth_duration = 0
    /\ true_duration = 0
    /\ tmp_file = FALSE
    /\ tts_calls = {}
    /\ nar_results = <<>>
    /\ last_result = NoResult

IdleAnalysis ==
    /\ ana_pc = "idle"
    /\ ana_i = 0
    /\ character_mentions = {}
    /\ scene_character_info = <<>>

IdleRequest ==
    /\ req_endpoint = "none"
    /\ req_pc = "idle"
    /\ slug_is_default = TRUE
    /\ has_payload = FALSE
    /\ slug_storyboard = TRUE
    /\ legacy_storyboard = TRUE
    /\ slug_videos = FALSE
    /\ default_videos = FALSE
    /\ req_status = 0
    /\ req_work = FALSE
    /\ req_video_dir = "none"
    /\ req_audio_dir = "none"
    /\ final_video_path = "none"
    /\ default_dir_read = FALSE

\* Scenes of the storyboard of the generation request.
NumServed == 2

ServedScenes == 1..NumServed

IdleServer ==
    /\ srv_kind = "none"
    /\ loop_thread = "idle"
    /\ srv_gen = "idle"
    /\ srv_awaits = 0
    /\ srv_scenes = [n \in ServedScenes |-> "pending"]
    /\ srv_asm = "idle"
    /\ srv_other = "idle"

\* The directory a draft handler has not touched yet.
NoRoot == [op |-> "none", path |-> <<>>]

IdleDraft ==
    /\ draft_endpoint = "none"
    /\ draft_arg = <<>>
    /\ draft_pc = "idle"
    /\ draft_slug = <<>>
    /\ draft_root = NoRoot
    /\ draft_status = 0

IdleRefs ==
    /\ ref_idx = 0
    /\ ref_reply = [kind |-> "error", list |-> <<>>]
    /\ ref_pc = "idle"
    /\ ref_calls = 0
    /\ ref_result = <<>>

\* Slugs with assets under generated_scenes/ and images/.
AssetSlugs == {"default", "acme"}

\* Scenes of the storyboard of each slug.
NumAssetScenes == 2

AssetScenes == 1..NumAssetScenes

\* A file below BASE_DIR: <root>/<slug>/<dir>/scene<n><suffix>
AssetPath(root, slug, dir, n, suffix) ==
    [root |-> root, slug |-> slug, dir |-> dir, n |-> n, suffix |-> suffix]

\* routes.py:55-58
scene_image_path(slug, n) ==
    AssetPath("generated_scenes", slug, "images", n, ".png")

\* routes.py:627
scene_path(slug, n) ==
    AssetPath("images", slug, "images", n, ".png")

\* tts_service.py:51-55, with output_dir of routes.py:1364
output_path(slug, n) ==
    AssetPath("generated_scenes", slug, "audio", n, "_voiceover.mp3")

\* A temporary file named without the scene index.
TrimmedPathShared(slug, n) ==
    AssetPath("generated_scenes", slug, "audio", 0, "_voiceover.tmp.mp3")

\* tts_service.py:66, output_path.with_suffix(".tmp.mp3")
trimmed_path(slug, n) ==
    AssetPath("generated_scenes", slug, "audio", n,
              "_voiceover.tmp.mp3")

AssetPaths ==
    UNION {{scene_image_path(s, n), scene_path(s, n), output_path(s, n),
            trimmed_path(s, n), TrimmedPathShared(s, n)} :
           s \in AssetSlugs, n \in AssetScenes}

\* No file, and no operation.
NoWriter == [kind |-> "none", slug |-> "default", n |-> 0]

IdleAssets ==
    /\ asset_files = <<>>
    /\ asset_op = NoWriter
    /\ asset_pc = "idle"
    /\ asset_ops = 0

\* ------------------------------------------------- generate_ad_ideas at rest
IdleAds ==
    /\ ad_pc = "idle"
    /\ ad_status = 0
    /\ scraper = "none"
    /\ elapsed = 0
    /\ ideas_len = 0
    /\ ad_ideas = <<>>
    /\ ad_results = <<>>
    /\ ad_calls = <<>>
    /\ ad_returned = <<>>

\* ------------------------------------------ concurrent assembly runs at rest
IdlePair ==
    /\ pair_pc = <<>>
    /\ pair_clips = <<>>
    /\ pair_temp = <<>>
    /\ cwd_temp = <<>>
    /\ cwd_list = 0
    /\ pair_final = <<>>

\* --------------------------------------------- website parameter at rest
IdleWebsite ==
    /\ web_pc = "idle"
    /\ web_arg = 0
    /\ web_slug = <<>>
    /\ web_again = <<>>

Init ==
    /\ InitSynth
    /\ IdleBatch
    /\ IdleAssembly
    /\ IdleNarration
    /\ IdleAnalysis
    /\ IdleRequest
    /\ IdleServer
    /\ IdleDraft
    /\ IdleRefs
    /\ IdleAssets
    /\ IdleWebsite
    /\ IdlePair
    /\ IdleAds

Next == NextSynth

Spec == Init /\ [][Next]_vars

\* -------------------------------------------------------------- SpecBatch
\* The step of the cascade at position p, for the response r.
StepOf(p, r, cand, pre_b, pre_c) ==
    CASE p = "A" -> AfterA(r, pre_b, pre_c)
      [] p = "A_retry" -> AfterARetry(r, cand, pre_b, pre_c)
      [] p = "B" -> AfterB(r, cand, pre_c)
      [] p = "C" -> AfterC(r, cand)
      [] p = "D" -> AfterD(r, cand)

\* routes.py:430-647: the ways a cascade at position p can end, over every
\* provider behaviour; at "extract" the candidate carries image data or not.
RECURSIVE CascadeResults(_, _, _, _)
CascadeResults(p, cand, pre_b, pre_c) ==
    IF p = "FAILURE" THEN {"FAILURE"}
    ELSE IF p = "extract" THEN {"SUCCESS", "FAILURE"}
    ELSE UNION {LET n == StepOf(p, r, cand, pre_b, pre_c)
                IN  CascadeResults(n.pc, n.candidate, pre_b, pre_c) :
                r \in Responses}

\* routes.py:183-188: the lists find_character_reference_scenes can return
\* for scene n, over every reply of the service. The entry of scene n is read
\* by the synthesis of scene n alone, so the batch draws it there.
AdvisoryLists ==
    [n \in SceneNumbers |->
        {find_character_reference_scenes(n - 1, reply) : reply \in ServiceReplies}]

\* routes.py:331-647: how generate_scene_image(idx) can end on these files
SceneOutcomes(idx, files) ==
    UNION {CascadeResults("A", "none", PreB(idx, files), pre_c) :
           pre_c \in {PreC(refs, files) : refs \in AdvisoryLists[idx]}}

Count(status) ==
    Cardinality({k \in 1..Len(results) : results[k].status = status})

InitBatch ==
    /\ endpoint \in {"generate_scenes", "generate_all_storyboard_images"}
    /\ described \in [SceneNumbers -> BOOLEAN]
    /\ images \in [SceneNumbers -> {"absent", "old"}]
    /\ mirror = images
    /\ batch_pc = "analyze"
    /\ i = 0
    /\ results = <<>>
    /\ outcome = [n \in SceneNumbers |-> "none"]
    /\ response = [status |-> 0, successful |-> 0, failed |-> 0]
    /\ IdleSynth
    /\ IdleAssembly
    /\ IdleNarration
    /\ IdleAnalysis
    /\ IdleRequest
    /\ IdleServer

\* routes.py:944 and 671: analyze_character_usage; should_include_character
\* raises HTTPException when its completion call fails (routes.py:732-733),
\* which ends the request
    /\ IdleDraft
    /\ IdleRefs
    /\ IdleAssets
    /\ IdleWebsite
    /\ IdlePair
    /\ IdleAds
BatchAnalyze ==
    /\ batch_pc = "analyze"
    /\ \/ /\ batch_pc' = "loop"
          /\ i' = 1
          /\ UNCHANGED response
       \/ /\ batch_pc' = "done"
          /\ response' = [status |-> 500, successful |-> 0, failed |-> 0]
          /\ UNCHANGED i
    /\ UNCHANGED <<endpoint, described, results, outcome, images, mirror>>
    /\ UNCHANGED <<scene_index, include_main_char, reference_scenes,
                   content_parts, pc, candidate, attempts, asmVars,
                   narVars, anaVars, reqVars, srvVars, draftVars, refVars,
                   assetVars, webVars, pairVars, adVars>>

InLoop(e) == endpoint = e /\ batch_pc = "loop" /\ i \in SceneNumbers

BatchFrame ==
    UNCHANGED <<endpoint, described, scene_index, include_main_char,
                reference_scenes, content_parts, pc, candidate, attempts,
                asmVars, narVars, anaVars, reqVars, srvVars, draftVars,
                refVars, assetVars, webVars, pairVars, adVars>>

\* routes.py:950-956
GenerateScenesSkip ==
    /\ InLoop("generate_scenes")
    /\ ~described[i]
    /\ outcome' = [outcome EXCEPT ![i] = "skipped"]
    /\ i' = i + 1
    /\ UNCHANGED <<batch_pc, results, response, images, mirror>>
    /\ BatchFrame

\* routes.py:958-969, and 975-977 when generate_scene_image raises
GenerateScenesStep ==
    /\ InLoop("generate_scenes")
    /\ described[i]
    /\ \/ /\ "SUCCESS" \in SceneOutcomes(i, images)
          /\ images' = [images EXCEPT ![i] = "new"]
          /\ mirror' = [mirror EXCEPT ![i] = "new"]
          /\ results' = Append(results, [scene |-> i, status |-> "success"])
          /\ outcome' = [outcome EXCEPT ![i] = "success"]
          /\ i' = i + 1
          /\ UNCHANGED <<batch_pc, response>>
       \/ /\ "FAILURE" \in SceneOutcomes(i, images)
          /\ outcome' = [outcome EXCEPT ![i] = "failure"]
          /\ batch_pc' = "done"
          /\ response' = [status |-> 500, successful |-> 0, failed |-> 0]
          /\ UNCHANGED <<i, results, images, mirror>>
    /\ BatchFrame

\* routes.py:971-973
GenerateScenesReturn ==
    /\ endpoint = "generate_scenes"
    /\ batch_pc = "loop"
    /\ i > NumScenes
    /\ batch_pc' = "done"
    /\ response' = [status |-> 200, successful |-> Len(results), failed |-> 0]
    /\ UNCHANGED <<i, results, outcome, images, mirror>>
    /\ BatchFrame

\* routes.py:677-700 with two scenes synthesized at once on the same files
GenerateAllStepPairs ==
    /\ InLoop("generate_all_storyboard_images")
    /\ LET last == IF i < NumScenes THEN i + 1 ELSE i IN
       /\ outcome' = [n \in SceneNumbers |->
                         IF n \in i..last THEN "success" ELSE outcome[n]]
       /\ images' = [n \in SceneNumbers |->
                        IF n \in i..last THEN "new" ELSE images[n]]
       /\ mirror' = [n \in SceneNumbers |->
                        IF n \in i..last THEN "new" ELSE mirror[n]]
       /\ results' = results \o [k \in 1..(last - i + 1) |->
                                    [scene |-> i + k - 1, status |-> "success"]]
       /\ i' = last + 1
    /\ UNCHANGED <<batch_pc, response>>
    /\ BatchFrame

\* routes.py:677-700
GenerateAllStep ==
    /\ InLoop("generate_all_storyboard_images")
    /\ \/ /\ "SUCCESS" \in SceneOutcomes(i, images)
          /\ images' = [images EXCEPT ![i] = "new"]
          /\ mirror' = [mirror EXCEPT ![i] = "new"]
          /\ results' = Append(results, [scene |-> i, status |-> "success"])
          /\ outcome' = [outcome EXCEPT ![i] = "success"]
       \/ /\ "FAILURE" \in SceneOutcomes(i, images)
          /\ results' = Append(results, [scene |-> i, status |-> "error"])
          /\ outcome' = [outcome EXCEPT ![i] = "failure"]
          /\ UNCHANGED <<images, mirror>>
    /\ i' = i + 1
    /\ UNCHANGED <<batch_pc, response>>
    /\ BatchFrame

\* routes.py:702-712
GenerateAllReturn ==
    /\ endpoint = "generate_all_storyboard_images"
    /\ batch_pc = "loop"
    /\ i > NumScenes
    /\ batch_pc' = "done"
    /\ response' = [status |-> 200, successful |-> Count("success"),
                    failed |-> Count("error")]
    /\ UNCHANGED <<i, results, outcome, images, mirror>>
    /\ BatchFrame

NextBatch ==
    \/ BatchAnalyze
    \/ GenerateScenesSkip
    \/ GenerateScenesStep
    \/ GenerateScenesReturn
    \/ GenerateAllStep
    \/ GenerateAllReturn

SpecBatch == InitBatch /\ [][NextBatch]_vars

\* ----------------------------------------------------------- SpecAssembly
\* Largest scene number of a clip in the video directory.
MaxSceneNumber == 10
\* Most clips in the video directory.
MaxClips == 3

\* The decimal digits of n, most significant first.
RECURSIVE Digits(_)
Digits(n) == IF n < 10 THEN <<n>> ELSE Append(Digits(n \div 10), n % 10)

\* The characters of "scene<N>.mp4" that differ between two clips, as code
\* points: the digits of N ('0' is 48) and the '.' (46) that follows them.
FileNameKey(n) ==
    LET d == Digits(n) IN [k \in 1..Len(d) |-> 48 + d[k]] \o <<46>>

\* Python's str "<": the first differing code point decides, a proper prefix
\* is smaller.
RECURSIVE LexLess(_, _)
LexLess(a, b) ==
    IF b = <<>> THEN FALSE
    ELSE IF a = <<>> THEN TRUE
    ELSE IF Head(a) # Head(b) THEN Head(a) < Head(b)
    ELSE LexLess(Tail(a), Tail(b))

\* ffmpeg_stitched.py:75: sorted() of the file names
NameLess(m, n) == LexLess(FileNameKey(m), FileNameKey(n))

RECURSIVE SortedNames(_)
SortedNames(S) ==
    IF S = {} THEN <<>>
    ELSE LET first == CHOOSE m \in S : \A n \in S \ {m} : NameLess(m, n)
         IN  <<first>> \o SortedNames(S \ {first})

\* ffmpeg_stitched.py:79-94: the (video, audio) pair of a clip; audio 0 is None
PairOf(n, audio) == [video |-> n, audio |-> IF n \in audio THEN n ELSE 0]

\* ffmpeg_stitched.py:73-94, the mutation that walks the scene numbers up to
\* the largest one instead of listing the directory
DiscoverEveryNumber(videos, audio) ==
    LET names == SortedNames({n \in 1..MaxSceneNumber : \E m \in videos : n <= m})
    IN  [k \in 1..Len(names) |-> PairOf(names[k], audio)]

\* ffmpeg_stitched.py:73-94
Discover(videos, audio) ==
    LET names == SortedNames(videos)
    IN  [k \in 1..Len(names) |-> PairOf(names[k], audio)]

\* ffmpeg_stitched.py:9-32, combine_video_audio: the audio of the output is
\* the amix of both tracks (keep_original_audio) or the audio file alone; both
\* outputs are built with shortest=None, ffmpeg's -shortest
combine_video_audio(video_file, audio_file, keep) ==
    [video |-> video_file,
     audio |-> IF keep THEN "mixed" ELSE "narration",
     shortest |-> TRUE]

\* ffmpeg_stitched.py:118-119, shutil.copy of the clip
CopyVideo(video_file) ==
    [video |-> video_file, audio |-> "embedded", shortest |-> FALSE]

\* ffmpeg_stitched.py:113-120, the mutation that hands the caller's flag on
TempClipKeepsFlag(scene, keep) ==
    IF scene.audio # 0
    THEN combine_video_audio(scene.video, scene.audio, keep)
    ELSE CopyVideo(scene.video)

\* ffmpeg_stitched.py:107-120: the temporary clip of one scene; the call of
\* combine_video_audio passes keep_original_audio=False whatever the caller
\* of process_scenes_and_join passed
TempClip(scene, keep) ==
    IF scene.audio # 0
    THEN combine_video_audio(scene.video, scene.audio, FALSE)
    ELSE CopyVideo(scene.video)

InitAssembly ==
    /\ keep_original_audio \in BOOLEAN
    /\ segments = <<>>
    /\ video_dir \in {S \in SUBSET (1..MaxSceneNumber) : Cardinality(S) <= MaxClips}
    /\ audio_dir \in SUBSET video_dir
    /\ scenes = <<>>
    /\ temp_videos = <<>>
    /\ temp_files = {}
    /\ concat_file = FALSE
    /\ final_output = <<>>
    /\ asm_pc = "discover"
    /\ images = [n \in SceneNumbers |-> "absent"]
    /\ mirror = [n \in SceneNumbers |-> "absent"]
    /\ IdleSynth
    /\ IdleBatch
    /\ IdleNarration
    /\ IdleAnalysis
    /\ IdleRequest
    /\ IdleServer
    /\ IdleDraft
    /\ IdleRefs
    /\ IdleAssets
    /\ IdleWebsite
    /\ IdlePair
    /\ IdleAds

AsmFrame ==
    UNCHANGED <<synthVars, batchVars, narVars, anaVars, reqVars, srvVars,
                draftVars, refVars, assetVars, webVars, pairVars, adVars,
                keep_original_audio, video_dir, audio_dir>>

\* ffmpeg_stitched.py:73-103
DiscoverScenes ==
    /\ asm_pc = "discover"
    /\ scenes' = Discover(video_dir, audio_dir)
    /\ asm_pc' = IF scenes' = <<>> THEN "returned" ELSE "combine"
    /\ UNCHANGED <<temp_videos, temp_files, segments, concat_file, final_output>>
    /\ AsmFrame

\* ffmpeg_stitched.py:106-122, one iteration: combine_video_audio or
\* shutil.copy writes temp_scene_<k>.mp4; when it raises, the output file was
\* created or not
CombineScene ==
    /\ asm_pc = "combine"
    /\ Len(temp_videos) < Len(scenes)
    /\ LET k == Len(temp_videos) + 1 IN
       \/ /\ temp_files' = temp_files \cup {k}
          /\ temp_videos' = Append(temp_videos, k)
          /\ segments' = Append(segments, TempClip(scenes[k], keep_original_audio))
          /\ UNCHANGED asm_pc
       \/ /\ \E left \in BOOLEAN :
                temp_files' = IF left THEN temp_files \cup {k} ELSE temp_files
          /\ asm_pc' = "raised"
          /\ UNCHANGED <<temp_videos, segments>>
    /\ UNCHANGED <<scenes, concat_file, final_output>>
    /\ AsmFrame

\* ffmpeg_stitched.py:124-125 and 37-44: the concat list is written
JoinWriteList ==
    /\ asm_pc = "combine"
    /\ Len(temp_videos) = Len(scenes)
    /\ concat_file' = TRUE
    /\ asm_pc' = "join"
    /\ UNCHANGED <<scenes, temp_videos, temp_files, segments, final_output>>
    /\ AsmFrame

\* ffmpeg_stitched.py:47-60: ffmpeg concatenates or fails; the finally block
\* removes the concat list
JoinRun ==
    /\ asm_pc = "join"
    /\ concat_file' = FALSE
    /\ \/ /\ final_output' =
                [k \in 1..Len(temp_videos) |-> segments[temp_videos[k]].video]
          /\ asm_pc' = "cleanup"
       \/ /\ asm_pc' = "raised"
          /\ UNCHANGED final_output
    /\ UNCHANGED <<scenes, temp_videos, temp_files, segments>>
    /\ AsmFrame

\* ffmpeg_stitched.py:127-134, cleanup_temp left at its default True
Cleanup ==
    /\ asm_pc = "cleanup"
    /\ temp_files' = temp_files \ {temp_videos[k] : k \in 1..Len(temp_videos)}
    /\ asm_pc' = "returned"
    /\ UNCHANGED <<scenes, temp_videos, segments, concat_file, final_output>>
    /\ AsmFrame

NextAssembly ==
    \/ DiscoverScenes
    \/ CombineScene
    \/ JoinWriteList
    \/ JoinRun
    \/ Cleanup

SpecAssembly == InitAssembly /\ [][NextAssembly]_vars

\* ================================================ narration (tts_service.py)
\* Longest voice-over text, in characters.
MaxTextLen == 2
\* Longest audio or video, in seconds.
MaxDuration == 3

\* A text is a sequence of characters; " " stands for the whitespace
\* characters and "a" for the others.
Chars == {" ", "a"}

TextValues == UNION {[1..n -> Chars] : n \in 0..MaxTextLen}

\* str.strip(): leading and trailing whitespace removed
RECURSIVE LStrip(_)
LStrip(t) == IF t # <<>> /\ Head(t) = " " THEN LStrip(Tail(t)) ELSE t

RECURSIVE RStrip(_)
RStrip(t) ==
    IF t # <<>> /\ t[Len(t)] = " " THEN RStrip(SubSeq(t, 1, Len(t) - 1)) ELSE t

Strip(t) == RStrip(LStrip(t))

\* tts_service.py:40 with the strip() test left out
IsBlankOnlyEmpty(text) == text = <<>>

\* tts_service.py:40: not text or not text.strip()
IsBlank(text) == text = <<>> \/ Strip(text) = <<>>

\* tts_service.py:64: max_duration and audio_duration and
\* audio_duration > max_duration (None and 0.0 are both false)
NeedsTrim(maxd, ad) == maxd # 0 /\ ad # 0 /\ ad > maxd

InBatch == nar_caller = "generate_all_voiceovers"

InitNarration ==
    /\ nar_caller \in {"generate_all_voiceovers", "generate_voiceover"}
    /\ nar_pc = IF InBatch THEN "loop" ELSE "call"
    /\ nar_i = 0
    /\ nar_scene = 0
    /\ voice_text = <<>>
    /\ max_duration = 0
    /\ audio_duration = 0
    /\ \E f \in {"absent", "old"} : audio_files = [n \in NarratedScenes |-> f]
    /\ synth_duration = 0
    /\ true_duration = 0
    /\ tmp_file = FALSE
    /\ tts_calls = {}
    /\ nar_results = <<>>
    /\ last_result = NoResult
    /\ images = [n \in SceneNumbers |-> "absent"]
    /\ mirror = [n \in SceneNumbers |-> "absent"]
    /\ IdleSynth
    /\ IdleBatch
    /\ IdleAssembly
    /\ IdleAnalysis
    /\ IdleRequest
    /\ IdleServer
    /\ IdleDraft
    /\ IdleRefs
    /\ IdleAssets
    /\ IdleWebsite
    /\ IdlePair
    /\ IdleAds

NarFrame ==
    UNCHANGED <<synthVars, batchVars, asmVars, anaVars, reqVars, srvVars,
                draftVars, refVars, assetVars, webVars, pairVars, adVars,
                nar_caller>>

\* tts_service.py:32-38: generate_voiceover entered with its arguments
Enter(n, text, maxd) ==
    /\ nar_scene' = n
    /\ voice_text' = text
    /\ max_duration' = maxd
    /\ audio_duration' = 0
    /\ synth_duration' = 0
    /\ true_duration' = 0
    /\ nar_pc' = "check"

\* generate_voiceover called on its own, with any arguments
VoiceoverCall ==
    /\ nar_pc = "call"
    /\ \E n \in NarratedScenes, text \in TextValues, maxd \in 0..MaxDuration :
          Enter(n, text, maxd)
    /\ UNCHANGED <<nar_i, audio_files, tmp_file, tts_calls, nar_results,
                   last_result>>
    /\ NarFrame

\* tts_service.py:98-102: the entry has no voice_over_text, or an empty one
LoopSkip ==
    /\ nar_pc = "loop"
    /\ nar_i < NumNarrated
    /\ nar_i' = nar_i + 1
    /\ UNCHANGED <<nar_pc, nar_scene, voice_text, max_duration, audio_duration,
                   audio_files, synth_duration, true_duration, tmp_file,
                   tts_calls, nar_results, last_result>>
    /\ NarFrame

\* tts_service.py:98-117: the entry has a voice_over_text; max_duration is the
\* probed duration of scene<i>.mp4 when the file exists and the probe
\* succeeds, None otherwise
LoopCall ==
    /\ nar_pc = "loop"
    /\ nar_i < NumNarrated
    /\ nar_i' = nar_i + 1
    /\ \E text \in TextValues \ {<<>>}, maxd \in 0..MaxDuration :
          Enter(nar_i + 1, text, maxd)
    /\ UNCHANGED <<audio_files, tmp_file, tts_calls, nar_results, last_result>>
    /\ NarFrame

\* tts_service.py:126
LoopReturn ==
    /\ nar_pc = "loop"
    /\ nar_i = NumNarrated
    /\ nar_pc' = "done"
    /\ UNCHANGED <<nar_i, nar_scene, voice_text, max_duration, audio_duration,
                   audio_files, synth_duration, true_duration, tmp_file,
                   tts_calls, nar_results, last_result>>
    /\ NarFrame

\* generate_voiceover raises: tts_service.py:119-124 records the failure and
\* the loop goes on; a lone call ends with the exception
Raises ==
    /\ nar_results' = IF InBatch
                      THEN Append(nar_results,
                                  [success |-> FALSE, scene_index |-> nar_scene])
                      ELSE nar_results
    /\ nar_pc' = IF InBatch THEN "loop" ELSE "raised"
    /\ last_result' = NoResult

\* tts_service.py:77-86 and 118
Returns(clipped, duration) ==
    /\ nar_results' = IF InBatch
                      THEN Append(nar_results,
                                  [success |-> TRUE, scene_index |-> nar_scene])
                      ELSE nar_results
    /\ nar_pc' = IF InBatch THEN "loop" ELSE "returned"
    /\ last_result' = [success |-> TRUE, clipped_to_video |-> clipped,
                       duration_seconds |-> duration]

\* tts_service.py:40-41
CheckText ==
    /\ nar_pc = "check"
    /\ IF IsBlank(voice_text)
       THEN Raises
       ELSE nar_pc' = "convert" /\ UNCHANGED <<nar_results, last_result>>
    /\ UNCHANGED <<nar_i, nar_scene, voice_text, max_duration, audio_duration,
                   audio_files, synth_duration, true_duration, tmp_file,
                   tts_calls>>
    /\ NarFrame

\* tts_service.py:45-49: the speech-synthesis call answers or raises
Convert ==
    /\ nar_pc = "convert"
    /\ tts_calls' = tts_calls \cup {nar_scene}
    /\ \/ nar_pc' = "open" /\ UNCHANGED <<nar_results, last_result>>
       \/ Raises
    /\ UNCHANGED <<nar_i, nar_scene, voice_text, max_duration, audio_duration,
                   audio_files, synth_duration, true_duration, tmp_file>>
    /\ NarFrame

\* tts_service.py:51-57: open(output_path, "wb") creates or truncates the file
OpenAudio ==
    /\ nar_pc = "open"
    /\ audio_files' = [audio_files EXCEPT ![nar_scene] = "partial"]
    /\ nar_pc' = "stream"
    /\ UNCHANGED <<nar_i, nar_scene, voice_text, max_duration, audio_duration,
                   synth_duration, true_duration, tmp_file, tts_calls,
                   nar_results, last_result>>
    /\ NarFrame

\* tts_service.py:58-59: every chunk is written, or the stream raises and the
\* file stays as far as it was written
StreamAudio ==
    /\ nar_pc = "stream"
    /\ \/ /\ \E d \in 1..MaxDuration :
                synth_duration' = d /\ true_duration' = d
          /\ audio_files' = [audio_files EXCEPT ![nar_scene] = "new"]
          /\ nar_pc' = "probe"
          /\ UNCHANGED <<nar_results, last_result>>
       \/ /\ Raises
          /\ UNCHANGED <<audio_files, synth_duration, true_duration>>
    /\ UNCHANGED <<nar_i, nar_scene, voice_text, max_duration, audio_duration,
                   tmp_file, tts_calls>>
    /\ NarFrame

\* tts_service.py:23-29: the duration of the file, or None when ffmpeg.probe
\* raises
ProbeValues(seconds) == {0, seconds}

\* tts_service.py:61-64 and, when nothing is to be trimmed, 77-86
ProbeAudio ==
    /\ nar_pc = "probe"
    /\ \E ad \in ProbeValues(true_duration) :
          /\ audio_duration' = ad
          /\ IF NeedsTrim(max_duration, ad)
             THEN nar_pc' = "trim" /\ UNCHANGED <<nar_results, last_result>>
             ELSE Returns(FALSE, ad)
    /\ UNCHANGED <<nar_i, nar_scene, voice_text, max_duration, audio_files,
                   synth_duration, true_duration, tmp_file, tts_calls>>
    /\ NarFrame

\* tts_service.py:65-73: ffmpeg writes the first max_duration seconds to
\* scene<N>_voiceover.tmp.mp3, or raises
TrimAudio ==
    /\ nar_pc = "trim"
    /\ \/ /\ tmp_file' = TRUE
          /\ nar_pc' = "replace"
          /\ UNCHANGED <<nar_results, last_result>>
       \/ /\ Raises
          /\ UNCHANGED tmp_file
    /\ UNCHANGED <<nar_i, nar_scene, voice_text, max_duration, audio_duration,
                   audio_files, synth_duration, true_duration, tts_calls>>
    /\ NarFrame

\* tts_service.py:74-86: the trimmed file replaces the output file; the
\* duration reported is the new probe, or max_duration when that probe fails
ReplaceAudio ==
    /\ nar_pc = "replace"
    /\ audio_files' = [audio_files EXCEPT ![nar_scene] = "trimmed"]
    /\ true_duration' = max_duration
    /\ tmp_file' = FALSE
    /\ \E probed \in ProbeValues(max_duration) :
          /\ audio_duration' = IF probed # 0 THEN probed ELSE max_duration
          /\ Returns(TRUE, audio_duration')
    /\ UNCHANGED <<nar_i, nar_scene, voice_text, max_duration, synth_duration,
                   tts_calls>>
    /\ NarFrame

NextNarration ==
    \/ VoiceoverCall
    \/ LoopSkip
    \/ LoopCall
    \/ LoopReturn
    \/ CheckText
    \/ Convert
    \/ OpenAudio
    \/ StreamAudio
    \/ ProbeAudio
    \/ TrimAudio
    \/ ReplaceAudio

SpecNarration == InitNarration /\ [][NextNarration]_vars

\* ===================================== character analysis (routes.py:163-328)
\* Scenes of the storyboard handed to analyze_character_usage.
NumAnalyzed == 3

\* The 0-based scene indices, the keys of the graph.
SceneIndices == 0..(NumAnalyzed - 1)

\* routes.py:233-251: what identify_characters_across_scenes gets back: an
\* error (the call raises, the content is not JSON, an entry has no
\* scene_number), or "scenes" entries for some scene numbers
IdentifyReplies ==
    {[kind |-> "error", numbers |-> {}]}
        \cup {[kind |-> "scenes", numbers |-> S] : S \in SUBSET (1..NumAnalyzed)}

\* routes.py:233-251
identify_characters_across_scenes(reply) ==
    IF reply.kind = "error" THEN {} ELSE {n - 1 : n \in reply.numbers}

\* routes.py:193: character_mentions.get(i, [])
CharactersPresent(mentions, idx) ==
    IF idx \in mentions THEN <<"speaker">> ELSE <<>>

\* routes.py:722-733: what should_include_character gets back: the call raises
\* ("error"), the message has no content ("malformed"), or an answer that
\* starts with "y" or does not
IncludeReplies == {"error", "malformed", "yes", "no"}

\* routes.py:350-353: scene_character_info.get(scene_index - 1, {}) and the
\* two .get() with defaults
Lookup(graph, n) ==
    IF (n - 1) \in DOMAIN graph
    THEN [found |-> TRUE,
          include_main_character |-> graph[n - 1].include_main_character,
          reference_scenes |-> graph[n - 1].reference_scenes]
    ELSE [found |-> FALSE,
          include_main_character |-> FALSE,
          reference_scenes |-> <<>>]

InitAnalysis ==
    /\ ana_pc = "identify"
    /\ ana_i = 0
    /\ character_mentions = {}
    /\ scene_character_info = <<>>
    /\ images = [n \in SceneNumbers |-> "absent"]
    /\ mirror = [n \in SceneNumbers |-> "absent"]
    /\ IdleSynth
    /\ IdleBatch
    /\ IdleAssembly
    /\ IdleNarration
    /\ IdleRequest
    /\ IdleServer
    /\ IdleDraft
    /\ IdleRefs
    /\ IdleAssets
    /\ IdleWebsite
    /\ IdlePair
    /\ IdleAds

AnaFrame ==
    UNCHANGED <<synthVars, batchVars, asmVars, narVars, reqVars, srvVars,
                draftVars, refVars, assetVars, webVars, pairVars, adVars>>

\* routes.py:170 and 199-251
IdentifyCharacters ==
    /\ ana_pc = "identify"
    /\ \E reply \in IdentifyReplies :
          character_mentions' = identify_characters_across_scenes(reply)
    /\ ana_pc' = "loop"
    /\ UNCHANGED <<ana_i, scene_character_info>>
    /\ AnaFrame

\* routes.py:176-194, one iteration in which should_include_character answers
AnalyzeScene ==
    /\ ana_pc = "loop"
    /\ ana_i < NumAnalyzed
    /\ \E answer \in IncludeReplies \ {"error", "malformed"},
          reply \in ServiceReplies :
          scene_character_info' =
              (ana_i :> [include_main_character |-> answer = "yes",
                         reference_scenes |->
                             find_character_reference_scenes(ana_i, reply),
                         characters_present |->
                             CharactersPresent(character_mentions, ana_i)])
                  @@ scene_character_info
    /\ ana_i' = ana_i + 1
    /\ UNCHANGED <<ana_pc, character_mentions>>
    /\ AnaFrame

\* routes.py:180 and 722-733: the completion call of should_include_character
\* raises or its message has no content; the HTTPException leaves
\* analyze_character_usage
IncludeCallRaises ==
    /\ ana_pc = "loop"
    /\ ana_i < NumAnalyzed
    /\ \E answer \in IncludeReplies \cap {"error", "malformed"} :
          ana_pc' = "raised"
    /\ UNCHANGED <<ana_i, character_mentions, scene_character_info>>
    /\ AnaFrame

\* routes.py:196
AnalysisReturn ==
    /\ ana_pc = "loop"
    /\ ana_i = NumAnalyzed
    /\ ana_pc' = "returned"
    /\ UNCHANGED <<ana_i, character_mentions, scene_character_info>>
    /\ AnaFrame

NextAnalysis ==
    \/ IdentifyCharacters
    \/ AnalyzeScene
    \/ IncludeCallRaises
    \/ AnalysisReturn

SpecAnalysis == InitAnalysis /\ [][NextAnalysis]_vars

\* ============================ preconditions of the endpoints (routes.py)
StoryboardEndpoints ==
    {"generate_scenes", "regenerate_scene", "generate_veo3_videos",
     "generate_voiceovers_endpoint"}

Endpoints == StoryboardEndpoints \cup {"generate_final_video"}

\* One request, with a valid body, on any state of the storage. The slug
\* "default" has one video directory.
InitRequest ==
    /\ req_endpoint \in Endpoints
    /\ req_pc = "request"
    /\ slug_is_default \in BOOLEAN
    /\ has_payload \in BOOLEAN
    /\ req_endpoint # "generate_scenes" => ~has_payload
    /\ slug_storyboard \in BOOLEAN
    /\ legacy_storyboard \in BOOLEAN
    /\ slug_videos \in BOOLEAN
    /\ default_videos \in BOOLEAN
    /\ slug_is_default => slug_videos = default_videos
    /\ req_status = 0
    /\ req_work = FALSE
    /\ req_video_dir = "none"
    /\ req_audio_dir = "none"
    /\ final_video_path = "none"
    /\ default_dir_read = FALSE
    /\ images = [n \in SceneNumbers |-> "absent"]
    /\ mirror = [n \in SceneNumbers |-> "absent"]
    /\ IdleSynth
    /\ IdleBatch
    /\ IdleAssembly
    /\ IdleNarration
    /\ IdleAnalysis
    /\ IdleServer
    /\ IdleDraft
    /\ IdleRefs
    /\ IdleAssets
    /\ IdleWebsite
    /\ IdlePair
    /\ IdleAds

ReqFrame ==
    UNCHANGED <<synthVars, batchVars, asmVars, narVars, anaVars, srvVars,
                draftVars, refVars, assetVars, webVars, pairVars, adVars,
                req_endpoint, slug_is_default, has_payload, legacy_storyboard,
                slug_videos, default_videos>>

\* The handler answers with an error status before it generates anything.
Refuse(status) ==
    /\ req_status' = status
    /\ req_pc' = "responded"
    /\ UNCHANGED <<req_work, slug_storyboard>>

\* The handler goes on to its generation or assembly work.
Proceed ==
    /\ req_pc' = "working"
    /\ req_work' = TRUE
    /\ UNCHANGED <<req_status, slug_storyboard>>

\* routes.py:920-940 and 975-977: a storyboard in the body is saved for the
\* slug; otherwise the first existing of the two files is read, and the
\* FileNotFoundError raised when there is none is answered by the handler of
\* Exception with status 500
GenerateScenesLoad ==
    /\ req_pc = "request"
    /\ req_endpoint = "generate_scenes"
    /\ IF has_payload
       THEN /\ slug_storyboard' = TRUE
            /\ req_pc' = "working"
            /\ req_work' = TRUE
            /\ UNCHANGED req_status
       ELSE IF slug_storyboard \/ legacy_storyboard THEN Proceed
       ELSE Refuse(500)
    /\ UNCHANGED dirVars
    /\ ReqFrame

\* routes.py:996-1024: open() of the chosen path raises FileNotFoundError when
\* neither file exists, and its handler generates the image with
\* dup_generate_scene_image
RegenerateSceneLoad ==
    /\ req_pc = "request"
    /\ req_endpoint = "regenerate_scene"
    /\ Proceed
    /\ UNCHANGED dirVars
    /\ ReqFrame

\* routes.py:1160-1166
GenerateVideosLoad ==
    /\ req_pc = "request"
    /\ req_endpoint = "generate_veo3_videos"
    /\ IF slug_storyboard \/ legacy_storyboard THEN Proceed ELSE Refuse(404)
    /\ UNCHANGED dirVars
    /\ ReqFrame

\* routes.py:1349-1358 and 1388-1392
GenerateVoiceoversLoad ==
    /\ req_pc = "request"
    /\ req_endpoint = "generate_voiceovers_endpoint"
    /\ IF slug_storyboard \/ legacy_storyboard THEN Proceed ELSE Refuse(404)
    /\ UNCHANGED dirVars
    /\ ReqFrame

\* routes.py:1291-1300 with the default slug preferred whenever it has clips
VideoSourcePrefersDefault(has_clips, is_default, default_has_clips) ==
    IF ~is_default /\ default_has_clips THEN "default"
    ELSE IF has_clips THEN "requested"
    ELSE "none"

\* routes.py:1291-1300: the slug whose directories are assembled; "none" is
\* the HTTPException with status 404
VideoSource(has_clips, is_default, default_has_clips) ==
    IF has_clips THEN "requested"
    ELSE IF ~is_default /\ default_has_clips THEN "default"
    ELSE "none"

\* routes.py:1282-1300
FinalVideoLoad ==
    /\ req_pc = "request"
    /\ req_endpoint = "generate_final_video"
    /\ final_video_path' = "requested"
    /\ LET source == VideoSource(slug_videos, slug_is_default, default_videos) IN
       /\ IF source = "none" THEN Refuse(404) ELSE Proceed
       /\ req_video_dir' = IF source = "default" THEN "default" ELSE "requested"
       /\ req_audio_dir' = IF source = "default" THEN "default" ELSE "requested"
    /\ default_dir_read' = (~slug_videos /\ ~slug_is_default)
    /\ ReqFrame

\* The work ends and the handler answers: success, or 500 from its handler
\* of Exception
FinishWork ==
    /\ req_pc = "working"
    /\ \E status \in {200, 500} : req_status' = status
    /\ req_pc' = "responded"
    /\ UNCHANGED <<req_work, slug_storyboard>>
    /\ UNCHANGED dirVars
    /\ ReqFrame

NextRequest ==
    \/ GenerateScenesLoad
    \/ RegenerateSceneLoad
    \/ GenerateVideosLoad
    \/ GenerateVoiceoversLoad
    \/ FinalVideoLoad
    \/ FinishWork

SpecRequest == InitRequest /\ [][NextRequest]_vars

\* ====================== requests on one server process (run_server.py:41)
\* uvicorn.run starts one process with one event loop. A handler declared
\* `async def` runs on the event-loop thread and gives it up only at an
\* await that suspends; a handler declared `def` is handed to a worker
\* thread.
\*   generate_scenes (async def, routes.py:903): awaits the completion calls
\*     of analyze_character_usage (AsyncOpenAI), then calls
\*     generate_scene_image per scene, which has no suspending await: its
\*     client.models.generate_content calls (routes.py:443) block the thread.
\*   generate_veo3_videos (async def, routes.py:1154): no await at all; it
\*     polls with time.sleep(10) while the operation is not done (1232-1234).
\*   generate_final_video (def, routes.py:1280): runs process_scenes_and_join
\*     in a worker thread.
\*   health_check (async def, routes.py:1038): one more request.
GenerationHandlers == {"generate_scenes", "generate_veo3_videos"}

\* routes.py:170, 180, 183: one call for the characters, and per scene one
\* for the main character and, after the first scene, one for the references
AnalysisCalls == 2 * NumServed

Pending == {n \in ServedScenes : srv_scenes[n] = "pending"}

InitServer ==
    /\ srv_kind \in GenerationHandlers
    /\ loop_thread = "idle"
    /\ srv_gen = "queued"
    /\ srv_awaits = IF srv_kind = "generate_scenes" THEN AnalysisCalls ELSE 0
    /\ srv_scenes = [n \in ServedScenes |-> "pending"]
    /\ srv_asm = "queued"
    /\ srv_other = "queued"
    /\ images = [n \in SceneNumbers |-> "absent"]
    /\ mirror = [n \in SceneNumbers |-> "absent"]
    /\ IdleSynth
    /\ IdleBatch
    /\ IdleAssembly
    /\ IdleNarration
    /\ IdleAnalysis
    /\ IdleRequest
    /\ IdleDraft
    /\ IdleRefs
    /\ IdleAssets
    /\ IdleWebsite
    /\ IdlePair
    /\ IdleAds

SrvFrame ==
    UNCHANGED <<synthVars, batchVars, asmVars, narVars, anaVars, reqVars,
                draftVars, refVars, assetVars, webVars, pairVars, adVars, srv_kind>>

\* The event loop starts the generation handler; generate_scenes runs up to
\* its first awaited completion call (routes.py:944, 234) and gives up the
\* thread, generate_veo3_videos keeps it (routes.py:1154-1180)
DispatchGeneration ==
    /\ loop_thread = "idle"
    /\ srv_gen = "queued"
    /\ IF srv_awaits > 0
       THEN srv_gen' = "awaiting" /\ UNCHANGED loop_thread
       ELSE srv_gen' = "loop" /\ loop_thread' = "generation"
    /\ UNCHANGED <<srv_awaits, srv_scenes, srv_asm, srv_other>>
    /\ SrvFrame

\* routes.py:170-188: an awaited completion call answers and the handler is
\* resumed on the event loop; after the last one it enters the scene loop
\* (routes.py:950) and keeps the thread
ResumeAnalysis ==
    /\ loop_thread = "idle"
    /\ srv_gen = "awaiting"
    /\ srv_awaits' = srv_awaits - 1
    /\ IF srv_awaits' > 0
       THEN UNCHANGED <<srv_gen, loop_thread>>
       ELSE srv_gen' = "loop" /\ loop_thread' = "generation"
    /\ UNCHANGED <<srv_scenes, srv_asm, srv_other>>
    /\ SrvFrame

\* routes.py:443 (generate_content) and 1220-1234 (generate_videos and the
\* time.sleep poll): the provider call of the next scene, made on the
\* event-loop thread without a timeout
CallProvider ==
    /\ srv_gen = "loop"
    /\ Pending # {}
    /\ LET n == CHOOSE m \in Pending : \A k \in Pending : m <= k
       IN  srv_scenes' = [srv_scenes EXCEPT ![n] = "running"]
    /\ srv_gen' = "provider"
    /\ UNCHANGED <<loop_thread, srv_awaits, srv_asm, srv_other>>
    /\ SrvFrame

\* The provider answers; nothing in the code makes the call end otherwise.
\* A failed scene is recorded by generate_veo3_videos (routes.py:1256-1258)
\* and ends generate_scenes (routes.py:975-977)
ProviderAnswers ==
    /\ srv_gen = "provider"
    /\ \E n \in ServedScenes, ok \in BOOLEAN :
          /\ srv_scenes[n] = "running"
          /\ srv_scenes' = [srv_scenes EXCEPT
                               ![n] = IF ok THEN "success" ELSE "failed"]
          /\ IF ~ok /\ srv_kind = "generate_scenes"
             THEN srv_gen' = "done" /\ loop_thread' = "idle"
             ELSE srv_gen' = "loop" /\ UNCHANGED loop_thread
    /\ UNCHANGED <<srv_awaits, srv_asm, srv_other>>
    /\ SrvFrame

\* routes.py:973 and 1265-1277: the handler answers and the thread is free
FinishGeneration ==
    /\ srv_gen = "loop"
    /\ Pending = {}
    /\ srv_gen' = "done"
    /\ loop_thread' = "idle"
    /\ UNCHANGED <<srv_awaits, srv_scenes, srv_asm, srv_other>>
    /\ SrvFrame

\* routes.py:1279-1280: the event loop hands generate_final_video to a worker
\* thread
DispatchAssembly ==
    /\ loop_thread = "idle"
    /\ srv_asm = "queued"
    /\ srv_asm' = "started"
    /\ UNCHANGED <<loop_thread, srv_gen, srv_awaits, srv_scenes, srv_other>>
    /\ SrvFrame

\* routes.py:1302-1307 and ffmpeg_stitched.py:75-122: the worker thread lists and
\* reads the clips of the slug
AssemblyReads ==
    /\ srv_asm = "started"
    /\ srv_asm' = "reading"
    /\ UNCHANGED <<loop_thread, srv_gen, srv_awaits, srv_scenes, srv_other>>
    /\ SrvFrame

\* routes.py:1308-1326
AssemblyReturns ==
    /\ srv_asm = "reading"
    /\ srv_asm' = "done"
    /\ UNCHANGED <<loop_thread, srv_gen, srv_awaits, srv_scenes, srv_other>>
    /\ SrvFrame

\* routes.py:1037-1050: the event loop runs the other request
ServeOther ==
    /\ loop_thread = "idle"
    /\ srv_other = "queued"
    /\ srv_other' = "served"
    /\ UNCHANGED <<loop_thread, srv_gen, srv_awaits, srv_scenes, srv_asm>>
    /\ SrvFrame

NextServer ==
    \/ DispatchGeneration
    \/ ResumeAnalysis
    \/ CallProvider
    \/ ProviderAnswers
    \/ FinishGeneration
    \/ DispatchAssembly
    \/ AssemblyReads
    \/ AssemblyReturns
    \/ ServeOther

SpecServer == InitServer /\ [][NextServer]_vars

\* ================ the draft endpoints (routes.py:42-80 and 1491-1515)
\* Longest slug a request carries.
MaxSlugLen == 3

\* Longest website text, after its scheme, a request carries.
MaxWebLen == 2

SlugChars == {" ", "/", "\\", ".", "a"}

SlugValues == UNION {[1..n -> SlugChars] : n \in 0..MaxSlugLen}

\* str.strip(chars): leading and trailing characters of the set removed
RECURSIVE LStripChars(_, _)
LStripChars(t, cs) ==
    IF t # <<>> /\ Head(t) \in cs THEN LStripChars(Tail(t), cs) ELSE t

RECURSIVE RStripChars(_, _)
RStripChars(t, cs) ==
    IF t # <<>> /\ t[Len(t)] \in cs
    THEN RStripChars(SubSeq(t, 1, Len(t) - 1), cs)
    ELSE t

StripChars(t, cs) == RStripChars(LStripChars(t, cs), cs)

\* routes.py:77-80: slug.strip().strip("/\\")
safe_slug(slug) == StripChars(Strip(slug), {"/", "\\"})

\* " " stands for whitespace, "a" for a lower-case letter, "A" for an
\* upper-case letter, "0" for a digit and ":" for any other character.
WebChars == {" ", "/", ".", "a", "A", "-", "0", "_", ":"}

\* payload.website: None, or a text that starts (after leading whitespace)
\* with "http://" or "https://" or does not, followed by `rest`.
WebsiteValues ==
    {[given |-> FALSE, scheme |-> FALSE, rest |-> <<>>]}
        \cup {[given |-> TRUE, scheme |-> sch, rest |-> r] :
              sch \in BOOLEAN,
              r \in UNION {[1..n -> WebChars] : n \in 0..MaxWebLen}}

\* str.lower()
Lower(c) == IF c = "A" THEN "a" ELSE c

\* routes.py:49-50: "/" and every character outside [a-z0-9._-] become "-"
\* (the lower-case letters are "a" and the letters of "default")
SlugChar(c) ==
    IF c \in {"a", "d", "e", "f", "u", "l", "t", "0", ".", "_", "-"}
    THEN c ELSE "-"

DefaultSlug == <<"d", "e", "f", "a", "u", "l", "t">>

\* routes.py:42-52 without the strip("-._") of line 51
WebsiteToSlugNoStrip(website) ==
    IF ~website.given \/ (~website.scheme /\ website.rest = <<>>)
    THEN DefaultSlug
    ELSE LET stripped == IF website.scheme THEN RStrip(website.rest)
                         ELSE Strip(website.rest)
             lowered == [k \in 1..Len(stripped) |-> Lower(stripped[k])]
             replaced == [k \in 1..Len(lowered) |-> SlugChar(lowered[k])]
         IN  IF replaced = <<>> THEN DefaultSlug ELSE replaced

\* routes.py:42-52
website_to_slug(website) ==
    IF ~website.given \/ (~website.scheme /\ website.rest = <<>>)
    THEN DefaultSlug
    ELSE LET stripped == IF website.scheme THEN RStrip(website.rest)
                         ELSE Strip(website.rest)
             lowered == [k \in 1..Len(stripped) |-> Lower(stripped[k])]
             replaced == [k \in 1..Len(lowered) |-> SlugChar(lowered[k])]
             cleaned == StripChars(replaced, {"-", ".", "_"})
         IN  IF cleaned = <<>> THEN DefaultSlug ELSE cleaned

\* One request to save_draft or get_draft. The path parameter {slug} of
\* get_draft (routes.py:1505) is one non-empty path segment of the URL.
InitSlug ==
    /\ draft_endpoint \in {"save_draft", "get_draft"}
    /\ draft_arg \in SlugValues
    /\ draft_endpoint = "get_draft" =>
           /\ draft_arg # <<>>
           /\ \A k \in 1..Len(draft_arg) : draft_arg[k] # "/"
    /\ draft_pc = "request"
    /\ draft_slug = <<>>
    /\ draft_root = NoRoot
    /\ draft_status = 0
    /\ images = [n \in SceneNumbers |-> "absent"]
    /\ mirror = [n \in SceneNumbers |-> "absent"]
    /\ IdleSynth
    /\ IdleBatch
    /\ IdleAssembly
    /\ IdleNarration
    /\ IdleAnalysis
    /\ IdleRequest
    /\ IdleServer
    /\ IdleRefs
    /\ IdleAssets
    /\ IdleWebsite
    /\ IdlePair
    /\ IdleAds

SlugFrame ==
    UNCHANGED <<synthVars, batchVars, asmVars, narVars, anaVars, reqVars,
                srvVars, refVars, assetVars, webVars, pairVars, adVars, draft_endpoint, draft_arg>>

\* routes.py:1495-1497
SaveDraftSlug ==
    /\ draft_pc = "request"
    /\ draft_endpoint = "save_draft"
    /\ \E website \in WebsiteValues :
         draft_slug' = IF safe_slug(draft_arg) # <<>>
                       THEN safe_slug(draft_arg)
                       ELSE website_to_slug(website)
    /\ IF draft_slug' = <<>>
       THEN draft_status' = 400 /\ draft_pc' = "responded"
       ELSE draft_status' = draft_status /\ draft_pc' = "mkdir"
    /\ UNCHANGED draft_root
    /\ SlugFrame

\* routes.py:1499-1502
SaveDraftMkdir ==
    /\ draft_pc = "mkdir"
    /\ draft_root' = [op |-> "mkdir", path |-> draft_slug]
    /\ draft_status' = 200
    /\ draft_pc' = "responded"
    /\ UNCHANGED draft_slug
    /\ SlugFrame

\* routes.py:1509-1510
GetDraftSafe ==
    /\ draft_pc = "request"
    /\ draft_endpoint = "get_draft"
    /\ draft_slug' = safe_slug(draft_arg)
    /\ draft_pc' = "lookup"
    /\ UNCHANGED <<draft_root, draft_status>>
    /\ SlugFrame

\* routes.py:1511-1515
GetDraftLookup ==
    /\ draft_pc = "lookup"
    /\ draft_root' = [op |-> "exists", path |-> draft_slug]
    /\ \E exists \in BOOLEAN : draft_status' = IF exists THEN 200 ELSE 404
    /\ draft_pc' = "responded"
    /\ UNCHANGED draft_slug
    /\ SlugFrame

NextSlug ==
    \/ SaveDraftSlug
    \/ SaveDraftMkdir
    \/ GetDraftSafe
    \/ GetDraftLookup

SpecSlug == InitSlug /\ [][NextSlug]_vars

\* ============ one call of find_character_reference_scenes (routes.py:257-328)
InitRefs ==
    /\ ref_idx \in 0..(NumScenes - 1)
    /\ ref_reply = [kind |-> "error", list |-> <<>>]
    /\ ref_pc = "enter"
    /\ ref_calls = 0
    /\ ref_result = <<>>
    /\ images = [n \in SceneNumbers |-> "absent"]
    /\ mirror = [n \in SceneNumbers |-> "absent"]
    /\ IdleSynth
    /\ IdleBatch
    /\ IdleAssembly
    /\ IdleNarration
    /\ IdleAnalysis
    /\ IdleRequest
    /\ IdleServer
    /\ IdleDraft
    /\ IdleAssets
    /\ IdleWebsite
    /\ IdlePair
    /\ IdleAds

RefsFrame ==
    UNCHANGED <<synthVars, batchVars, asmVars, narVars, anaVars, reqVars,
                srvVars, draftVars, assetVars, webVars, pairVars, adVars, ref_idx>>

\* routes.py:269-270
FirstSceneReturns ==
    /\ ref_pc = "enter"
    /\ ref_idx = 0
    /\ ref_result' = find_character_reference_scenes(ref_idx, ref_reply)
    /\ ref_pc' = "returned"
    /\ UNCHANGED <<ref_reply, ref_calls>>
    /\ RefsFrame

\* routes.py:303-309: the completion call and what it gives back
CompletionCall ==
    /\ ref_pc = "enter"
    /\ ref_idx > 0
    /\ ref_reply' \in ServiceReplies
    /\ ref_calls' = ref_calls + 1
    /\ ref_pc' = "called"
    /\ UNCHANGED ref_result
    /\ RefsFrame

\* routes.py:311-328
ReferencesReturned ==
    /\ ref_pc = "called"
    /\ ref_result' = find_character_reference_scenes(ref_idx, ref_reply)
    /\ ref_pc' = "returned"
    /\ UNCHANGED <<ref_reply, ref_calls>>
    /\ RefsFrame

NextRefs ==
    \/ FirstSceneReturns
    \/ CompletionCall
    \/ ReferencesReturned

SpecRefs == InitRefs /\ [][NextRefs]_vars

\* ====== the files written by generate_scene_image and generate_voiceover
\* Calls of generate_scene_image and generate_voiceover that are made.
MaxOperations == 2

\* A call of generate_scene_image(scene_index=n, slug=slug), or of
\* generate_voiceover(scene_index=n, output_dir=<slug>/audio).
Operations ==
    {[kind |-> k, slug |-> sl, n |-> n] :
     k \in {"synthesis", "narration"}, sl \in AssetSlugs, n \in AssetScenes}

InitAssets ==
    /\ asset_files = [p \in AssetPaths |-> NoWriter]
    /\ asset_op = NoWriter
    /\ asset_pc = "ready"
    /\ asset_ops = 0
    /\ images = [n \in SceneNumbers |-> "absent"]
    /\ mirror = [n \in SceneNumbers |-> "absent"]
    /\ IdleSynth
    /\ IdleBatch
    /\ IdleAssembly
    /\ IdleNarration
    /\ IdleAnalysis
    /\ IdleRequest
    /\ IdleServer
    /\ IdleDraft
    /\ IdleRefs
    /\ IdleAds
    /\ IdlePair
    /\ IdleWebsite

AssetFrame ==
    UNCHANGED <<synthVars, batchVars, asmVars, narVars, anaVars, reqVars,
                srvVars, draftVars, refVars, adVars, pairVars, webVars>>

\* The file at path p is opened for writing and written by the running call.
WriteFile(p) == asset_files' = [asset_files EXCEPT ![p] = asset_op]

\* routes.py:960 and tts_service.py:111: the next call is made
StartOperation ==
    /\ asset_pc = "ready"
    /\ asset_ops < MaxOperations
    /\ asset_op' \in Operations
    /\ asset_pc' = IF asset_op'.kind = "synthesis" THEN "out" ELSE "stream"
    /\ asset_ops' = asset_ops + 1
    /\ UNCHANGED asset_files
    /\ AssetFrame

\* routes.py:430-624 and 645-647: the cascade fails, nothing is written
SynthesisFails ==
    /\ asset_pc = "out"
    /\ asset_pc' = "ready"
    /\ UNCHANGED <<asset_files, asset_op, asset_ops>>
    /\ AssetFrame

\* routes.py:626 and 630-633, path = out_path
WriteOutPath ==
    /\ asset_pc = "out"
    /\ WriteFile(scene_image_path(asset_op.slug, asset_op.n))
    /\ asset_pc' = "scene_path"
    /\ UNCHANGED <<asset_op, asset_ops>>
    /\ AssetFrame

\* routes.py:627 and 630-633, path = scene_path
WriteScenePath ==
    /\ asset_pc = "scene_path"
    /\ WriteFile(scene_path(asset_op.slug, asset_op.n))
    /\ asset_pc' = "ready"
    /\ UNCHANGED <<asset_op, asset_ops>>
    /\ AssetFrame

\* tts_service.py:40-49: the text is empty or the service call raises
NarrationFails ==
    /\ asset_pc = "stream"
    /\ asset_pc' = "ready"
    /\ UNCHANGED <<asset_files, asset_op, asset_ops>>
    /\ AssetFrame

\* tts_service.py:51-59
WriteVoiceover ==
    /\ asset_pc = "stream"
    /\ WriteFile(output_path(asset_op.slug, asset_op.n))
    /\ asset_pc' = "probe"
    /\ UNCHANGED <<asset_op, asset_ops>>
    /\ AssetFrame

\* tts_service.py:61-73: the audio is trimmed into trimmed_path, or is not
WriteTrimmed ==
    /\ asset_pc = "probe"
    /\ \E trim \in BOOLEAN :
         IF trim
         THEN /\ WriteFile(trimmed_path(asset_op.slug, asset_op.n))
              /\ asset_pc' = "replace"
         ELSE /\ UNCHANGED asset_files
              /\ asset_pc' = "ready"
    /\ UNCHANGED <<asset_op, asset_ops>>
    /\ AssetFrame

\* tts_service.py:74, trimmed_path.replace(output_path)
ReplaceVoiceover ==
    /\ asset_pc = "replace"
    /\ asset_files' =
           [asset_files EXCEPT
               ![output_path(asset_op.slug, asset_op.n)] = asset_op,
               ![trimmed_path(asset_op.slug, asset_op.n)] = NoWriter]
    /\ asset_pc' = "ready"
    /\ UNCHANGED <<asset_op, asset_ops>>
    /\ AssetFrame

NextAssets ==
    \/ StartOperation
    \/ SynthesisFails
    \/ WriteOutPath
    \/ WriteScenePath
    \/ NarrationFails
    \/ WriteVoiceover
    \/ WriteTrimmed
    \/ ReplaceVoiceover

SpecAssets == InitAssets /\ [][NextAssets]_vars

\* ============================================ generate_ad_ideas (ad_pipeline.py)
\* Longest "ideas" list the text service answers with.
MaxIdeas == 4

\* ad_pipeline.py:19, the default of SCRAPER_TIMEOUT_SECONDS
SCRAPER_TIMEOUT_SECONDS == 75
\* ad_pipeline.py:20, the default of DEFAULT_AD_IDEA_COUNT
AD_IDEA_COUNT == 3

\* The clock of the model stops here.
MaxElapsed == SCRAPER_TIMEOUT_SECONDS + 2

\* A field of an idea: the key is absent, its value is null, or it is a text.
FieldValues ==
    {[kind |-> "absent", text |-> <<>>],
     [kind |-> "null", text |-> <<>>],
     [kind |-> "text", text |-> <<" ">>],
     [kind |-> "text", text |-> <<"a">>],
     [kind |-> "text", text |-> <<" ", "b", " ">>]}

\* An entry of the "ideas" list: an object, or a value that is no object.
Ideas ==
    [isObject : {TRUE}, title : FieldValues, description : FieldValues,
     image_prompt : FieldValues]
    \cup {[isObject |-> FALSE, title |-> v, description |-> v, image_prompt |-> v] :
          v \in {[kind |-> "absent", text |-> <<>>]}}

\* ad_pipeline.py:214-216: str(idea.get(key, "")).strip(); str(None) is "None"
FieldText(v) ==
    Strip(CASE v.kind = "absent" -> <<>>
            [] v.kind = "null" -> <<"N", "o", "n", "e">>
            [] OTHER -> v.text)

\* ad_pipeline.py:218, with the test of image_prompt left out
MissingFieldNoPrompt(idea) ==
    ~(FieldText(idea.title) # <<>> /\ FieldText(idea.description) # <<>>)

\* ad_pipeline.py:218: not (title and description and image_prompt)
MissingField(idea) ==
    ~(/\ FieldText(idea.title) # <<>>
      /\ FieldText(idea.description) # <<>>
      /\ FieldText(idea.image_prompt) # <<>>)

\* image_service.py:41-44: the base64 text of the image made from the prompt
generate_image_base64_from_prompt(prompt) == <<"image", prompt>>

\* ad_pipeline.py:234-240
ResultOf(idea) ==
    [title |-> FieldText(idea.title),
     description |-> FieldText(idea.description),
     image |-> generate_image_base64_from_prompt(FieldText(idea.image_prompt))]

\* ad_pipeline.py:102-105, the mutation without a timeout
NeverTimedOut(t) == FALSE

\* ad_pipeline.py:102-105: wait_for raises TimeoutError after the timeout
TimedOut(t) == t >= SCRAPER_TIMEOUT_SECONDS

InitAds ==
    /\ ad_pc = "start"
    /\ ad_status = 0
    /\ scraper = "none"
    /\ elapsed = 0
    /\ ideas_len = 0
    /\ ad_ideas = <<>>
    /\ ad_results = <<>>
    /\ ad_calls = <<>>
    /\ ad_returned = <<>>
    /\ images = [n \in SceneNumbers |-> "absent"]
    /\ mirror = [n \in SceneNumbers |-> "absent"]
    /\ IdleSynth
    /\ IdleBatch
    /\ IdleAssembly
    /\ IdleNarration
    /\ IdleAnalysis
    /\ IdleRequest
    /\ IdleServer
    /\ IdleDraft
    /\ IdleRefs
    /\ IdleAssets
    /\ IdleWebsite
    /\ IdlePair

AdsFrame ==
    UNCHANGED <<synthVars, batchVars, asmVars, narVars, anaVars, reqVars,
                srvVars, draftVars, refVars, assetVars, webVars, pairVars>>

\* raise HTTPException(status_code=status)
AdRaise(status) ==
    /\ ad_pc' = "raised"
    /\ ad_status' = status

\* ad_pipeline.py:85-89
ScraperMissing ==
    /\ ad_pc = "start"
    /\ AdRaise(500)
    /\ UNCHANGED <<scraper, elapsed, ideas_len, ad_ideas, ad_results, ad_calls,
                   ad_returned>>
    /\ AdsFrame

\* ad_pipeline.py:91-102: the subprocess is started and awaited
ScraperStart ==
    /\ ad_pc = "start"
    /\ scraper' = "running"
    /\ ad_pc' = "waiting"
    /\ UNCHANGED <<ad_status, elapsed, ideas_len, ad_ideas, ad_results,
                   ad_calls, ad_returned>>
    /\ AdsFrame

\* A second passes while wait_for waits.
ScraperTick ==
    /\ ad_pc = "waiting"
    /\ ~TimedOut(elapsed)
    /\ elapsed < MaxElapsed
    /\ elapsed' = elapsed + 1
    /\ UNCHANGED <<ad_pc, ad_status, scraper, ideas_len, ad_ideas, ad_results,
                   ad_calls, ad_returned>>
    /\ AdsFrame

\* ad_pipeline.py:102-134: the subprocess ended before the timeout; a non-zero
\* return code is answered 502, output without JSON 500
ScraperEnds ==
    /\ ad_pc = "waiting"
    /\ elapsed <= SCRAPER_TIMEOUT_SECONDS
    /\ scraper' = "exited"
    /\ \/ ad_pc' = "generate" /\ UNCHANGED ad_status
       \/ AdRaise(502)
       \/ AdRaise(500)
    /\ elapsed' = 0
    /\ UNCHANGED <<ideas_len, ad_ideas, ad_results, ad_calls, ad_returned>>
    /\ AdsFrame

\* ad_pipeline.py:105-113: TimeoutError; process.kill(), or ProcessLookupError
\* when the subprocess has just ended by itself; then 504
ScraperTimeout ==
    /\ ad_pc = "waiting"
    /\ TimedOut(elapsed)
    /\ scraper' \in {"killed", "exited"}
    /\ AdRaise(504)
    /\ UNCHANGED <<elapsed, ideas_len, ad_ideas, ad_results, ad_calls,
                   ad_returned>>
    /\ AdsFrame

\* ad_pipeline.py:195-208 with 137-190: the text service raises or answers
\* no JSON (502), a JSON value that is no object (AttributeError, 500), no
\* list or an empty one (502), or a list of n ideas (502 when n is too small)
TextService ==
    /\ ad_pc = "generate"
    /\ ad_calls' = Append(ad_calls, "text")
    /\ \/ AdRaise(502) /\ UNCHANGED ideas_len
       \/ AdRaise(500) /\ UNCHANGED ideas_len
       \/ \E n \in 1..MaxIdeas :
              /\ ideas_len' = n
              /\ IF n < AD_IDEA_COUNT
                 THEN AdRaise(502)
                 ELSE ad_pc' = "loop" /\ UNCHANGED ad_status
    /\ UNCHANGED <<scraper, elapsed, ad_ideas, ad_results, ad_returned>>
    /\ AdsFrame

\* ad_pipeline.py:213-222: the next of the first AD_IDEA_COUNT ideas is read
\* and its fields are tested
ReadIdea ==
    /\ ad_pc = "loop"
    /\ Len(ad_results) < AD_IDEA_COUNT
    /\ \E idea \in Ideas :
           /\ ad_ideas' = Append(ad_ideas, idea)
           /\ IF ~idea.isObject THEN AdRaise(500)
              ELSE IF MissingField(idea) THEN AdRaise(502)
              ELSE ad_pc' = "image" /\ UNCHANGED ad_status
    /\ UNCHANGED <<scraper, elapsed, ideas_len, ad_results, ad_calls,
                   ad_returned>>
    /\ AdsFrame

\* ad_pipeline.py:224-240: the image call of the idea just read
ImageCall ==
    /\ ad_pc = "image"
    /\ ad_calls' = Append(ad_calls, "image")
    /\ \/ /\ ad_results' = Append(ad_results, ResultOf(ad_ideas[Len(ad_ideas)]))
          /\ ad_pc' = "loop"
          /\ UNCHANGED ad_status
       \/ /\ AdRaise(500)
          /\ UNCHANGED ad_results
    /\ UNCHANGED <<scraper, elapsed, ideas_len, ad_ideas, ad_returned>>
    /\ AdsFrame

\* ad_pipeline.py:242
ReturnResults ==
    /\ ad_pc = "loop"
    /\ Len(ad_results) >= AD_IDEA_COUNT
    /\ ad_returned' = ad_results
    /\ ad_status' = 200
    /\ ad_pc' = "returned"
    /\ UNCHANGED <<scraper, elapsed, ideas_len, ad_ideas, ad_results, ad_calls>>
    /\ AdsFrame

NextAds ==
    \/ ScraperMissing
    \/ ScraperStart
    \/ ScraperTick
    \/ ScraperEnds
    \/ ScraperTimeout
    \/ TextService
    \/ ReadIdea
    \/ ImageCall
    \/ ReturnResults

SpecAds == InitAds /\ [][NextAds]_vars

\* ============================== two assembly runs at once (ffmpeg_stitched.py)
\* Most clips in the video directory of a slug.
MaxPairClips == 2

\* The slugs of the two requests; generate_final_video is a plain function,
\* so each request runs on a thread of its own.
PairSlugs == {"acme", "zeta"}

\* No file.
NoClip == [slug |-> "none", n |-> 0]

\* ffmpeg_stitched.py:106-122: temp_scene_<k>.mp4 made from the k-th clip of
\* the slug's video directory
ClipOf(slug, k) == [slug |-> slug, n |-> k]

InitPair ==
    /\ pair_pc = [s \in PairSlugs |-> "discover"]
    /\ pair_clips \in [PairSlugs -> 1..MaxPairClips]
    /\ pair_temp = [s \in PairSlugs |-> 0]
    /\ cwd_temp = [k \in 1..MaxPairClips |-> NoClip]
    /\ cwd_list = 0
    /\ pair_final = [s \in PairSlugs |-> <<>>]
    /\ images = [n \in SceneNumbers |-> "absent"]
    /\ mirror = [n \in SceneNumbers |-> "absent"]
    /\ IdleSynth
    /\ IdleBatch
    /\ IdleAssembly
    /\ IdleNarration
    /\ IdleAnalysis
    /\ IdleRequest
    /\ IdleServer
    /\ IdleDraft
    /\ IdleRefs
    /\ IdleAssets
    /\ IdleWebsite
    /\ IdleAds

PairFrame ==
    UNCHANGED <<synthVars, batchVars, asmVars, narVars, anaVars, reqVars,
                srvVars, draftVars, refVars, assetVars, webVars, adVars, pair_clips>>

\* routes.py:1279-1307 and ffmpeg_stitched.py:73-103: the clips of the slug's
\* own video directory are listed
PairDiscover(s) ==
    /\ pair_pc[s] = "discover"
    /\ pair_pc' = [pair_pc EXCEPT ![s] = "combine"]
    /\ UNCHANGED <<pair_temp, cwd_temp, cwd_list, pair_final>>
    /\ PairFrame

\* ffmpeg_stitched.py:106-122, one iteration: temp_scene_<k>.mp4, a path
\* relative to the working directory of the server, is written
PairCombine(s) ==
    /\ pair_pc[s] = "combine"
    /\ pair_temp[s] < pair_clips[s]
    /\ LET k == pair_temp[s] + 1 IN
          /\ cwd_temp' = [cwd_temp EXCEPT ![k] = ClipOf(s, k)]
          /\ pair_temp' = [pair_temp EXCEPT ![s] = k]
    /\ UNCHANGED <<pair_pc, cwd_list, pair_final>>
    /\ PairFrame

\* ffmpeg_stitched.py:37-44: temp_filelist.txt is written with the names
\* temp_scene_1.mp4 .. temp_scene_<n>.mp4 (cwd_list is n, 0 without the file)
PairWriteList(s) ==
    /\ pair_pc[s] = "combine"
    /\ pair_temp[s] = pair_clips[s]
    /\ cwd_list' = pair_temp[s]
    /\ pair_pc' = [pair_pc EXCEPT ![s] = "join"]
    /\ UNCHANGED <<pair_temp, cwd_temp, pair_final>>
    /\ PairFrame

\* ffmpeg_stitched.py:47-60: ffmpeg reads temp_filelist.txt and the files it
\* names as they are now, and fails when one of them is gone; the finally
\* block removes temp_filelist.txt when it exists
PairJoin(s) ==
    /\ pair_pc[s] = "join"
    /\ IF cwd_list # 0 /\ \A k \in 1..cwd_list : cwd_temp[k] # NoClip
       THEN /\ pair_final' =
                   [pair_final EXCEPT ![s] = [k \in 1..cwd_list |-> cwd_temp[k]]]
            /\ pair_pc' = [pair_pc EXCEPT ![s] = "cleanup"]
       ELSE /\ pair_pc' = [pair_pc EXCEPT ![s] = "raised"]
            /\ UNCHANGED pair_final
    /\ cwd_list' = 0
    /\ UNCHANGED <<pair_temp, cwd_temp>>
    /\ PairFrame

\* ffmpeg_stitched.py:127-134: the files named in temp_videos are removed
PairCleanup(s) ==
    /\ pair_pc[s] = "cleanup"
    /\ cwd_temp' = [k \in 1..MaxPairClips |->
                       IF k <= pair_temp[s] THEN NoClip ELSE cwd_temp[k]]
    /\ pair_pc' = [pair_pc EXCEPT ![s] = "returned"]
    /\ UNCHANGED <<pair_temp, cwd_list, pair_final>>
    /\ PairFrame

NextPair ==
    \E s \in PairSlugs :
        \/ PairDiscover(s)
        \/ PairCombine(s)
        \/ PairWriteList(s)
        \/ PairJoin(s)
        \/ PairCleanup(s)

SpecPair == InitPair /\ [][NextPair]_vars

\* ================================== website_to_slug on its own (routes.py)
\* The text `slug` given as a website parameter: it holds no "/", so it does
\* not start with a scheme.
AsWebsite(slug) == [given |-> TRUE, scheme |-> FALSE, rest |-> slug]

InitWebsite ==
    /\ web_pc = "request"
    /\ web_arg \in WebsiteValues
    /\ web_slug = <<>>
    /\ web_again = <<>>
    /\ images = [n \in SceneNumbers |-> "absent"]
    /\ mirror = [n \in SceneNumbers |-> "absent"]
    /\ IdleSynth
    /\ IdleBatch
    /\ IdleAssembly
    /\ IdleNarration
    /\ IdleAnalysis
    /\ IdleRequest
    /\ IdleServer
    /\ IdleDraft
    /\ IdleRefs
    /\ IdleAssets
    /\ IdleAds
    /\ IdlePair

WebsiteFrame ==
    UNCHANGED <<synthVars, batchVars, asmVars, narVars, anaVars, reqVars,
                srvVars, draftVars, refVars, assetVars, adVars, pairVars,
                web_arg>>

\* routes.py:1282 (and 919, 998, 1093, 1159, 1350): slug = website_to_slug(website)
SlugFromWebsite ==
    /\ web_pc = "request"
    /\ web_slug' = website_to_slug(web_arg)
    /\ web_pc' = "slugged"
    /\ UNCHANGED web_again
    /\ WebsiteFrame

\* The same line in a later request whose website parameter is the slug.
SlugFromSlug ==
    /\ web_pc = "slugged"
    /\ web_again' = website_to_slug(AsWebsite(web_slug))
    /\ web_pc' = "again"
    /\ UNCHANGED web_slug
    /\ WebsiteFrame

NextWebsite ==
    \/ SlugFromWebsite
    \/ SlugFromSlug

SpecWebsite == InitWebsite /\ [][NextWebsite]_vars

\* =================================================================== claims
Strategies == <<"A", "A_retry", "B", "C", "D">>

Rank(s) == CHOOSE k \in 1..Len(Strategies) : Strategies[k] = s

Tried(s) == \E k \in 1..Len(attempts) : attempts[k].strategy = s

Last(s) == s[Len(s)]

Images(a) == Len(a.sent)

\* C1: generate_scene_image reports FAILURE only after every cascade strategy
\* whose precondition holds has been attempted: D always, B when the image of
\* the preceding scene exists, C when the first advisory reference scene has
\* an image. Stated for the provider behaviours in which no call raises and
\* every call returns a candidate with a non-normal stop reason, so that the
\* case of a stop reason other than reference rejection on strategy A decides.
C1_FailureOnlyAfterEveryStrategy ==
    (/\ pc = "FAILURE"
     /\ \A k \in 1..Len(attempts) :
            attempts[k].outcome \in {"IMAGE_OTHER", "SAFETY"})
        => /\ Tried("A")
           /\ Tried("D")
           /\ PreB(scene_index, images) => Tried("B")
           /\ PreC(reference_scenes, images) => Tried("C")

\* C2: a call that raises a transport error never ends the scene while a
\* later strategy remains: after strategy A, A-retry, B or C raises, the
\* scene is not in FAILURE.
C2_RaiseAdvancesCascade ==
    (/\ attempts # <<>>
     /\ Last(attempts).outcome = "raise"
     /\ Last(attempts).strategy # "D")
        => pc # "FAILURE"

\* C4: a canonical scene image is never observable as a zero-byte or truncated
\* file: at every moment each scene<N>.png is absent, the complete previous
\* artifact or the complete new artifact.
C4_CanonicalWritesAtomic ==
    \A n \in SceneNumbers : images[n] # "partial" /\ mirror[n] # "partial"

\* C5: every scene image the reference budgeter selects for scene i belongs to
\* a scene index strictly less than i (and at least 1).
C5_NoForwardReference ==
    \A k \in 1..Len(content_parts) :
        content_parts[k].kind = "scene"
            => content_parts[k].n >= 1 /\ content_parts[k].n < scene_index

\* C5 witness: the budgeter has selected an advisory reference scene and a
\* preceding scene for the last scene of the storyboard.
C5_Witness ==
    /\ pc = "A"
    /\ scene_index = NumScenes
    /\ reference_scenes # <<>>
    /\ Len(SceneRefs(content_parts)) >= 2

\* C6: the number of scene images (advisory reference scenes plus preceding
\* scenes, character assets not counted) the budgeter selects never exceeds
\* MAX_REFERENCE_IMAGES. Stated for advisory lists without repeated entries.
C6_ReferenceCap ==
    (\A j, k \in 1..Len(reference_scenes) :
        reference_scenes[j] = reference_scenes[k] => j = k)
        => Len(SceneRefs(content_parts)) <= MAX_REFERENCE_IMAGES

\* C7 as claimed: along the cascade of one scene no attempt sends more
\* reference images than the attempt before it, and strategy D sends none.
C7_MonotoneImageCount ==
    /\ \A k \in 1..(Len(attempts) - 1) :
           Images(attempts[k + 1]) <= Images(attempts[k])
    /\ \A k \in 1..Len(attempts) :
           attempts[k].strategy = "D" => Images(attempts[k]) = 0

\* C7 amended: strategies A-retry and D send no reference image, strategies B
\* and C send exactly one (the preceding scene, the first advisory reference
\* scene), whatever strategy A sent; strategy A sends the budgeter's list.
C7_ImageCountPerStrategy ==
    \A k \in 1..Len(attempts) :
        LET a == attempts[k] IN
        /\ a.strategy = "A" => a.sent = content_parts
        /\ a.strategy \in {"A_retry", "D"} => Images(a) = 0
        /\ a.strategy \in {"B", "C"} => Images(a) = 1

\* C7 witness: all five strategies were called, B with one image after
\* A-retry with none.
C7_Witness ==
    /\ Len(attempts) = 5
    /\ Images(attempts[2]) = 0
    /\ Images(attempts[3]) = 1
    /\ Images(attempts[1]) >= 2

\* The position in generate_scene_image, for the order of its steps.
PcOrder ==
    <<"analyze", "A", "A_retry", "B", "C", "D", "extract", "open_out",
      "write_out", "open_mirror", "write_mirror", "SUCCESS", "FAILURE",
      "ERROR">>

PcRank(p) == CHOOSE k \in 1..Len(PcOrder) : PcOrder[k] = p

\* C8: one scene's synthesis makes at most 5 generate_content calls, calls
\* the strategies in the order A, A-retry, B, C, D without calling one twice,
\* never goes back to an earlier step, and, once generate_scene_image is
\* entered, can always take a step until it is in SUCCESS or FAILURE.
C8_BoundedCascade ==
    /\ [](/\ Len(attempts) <= 5
          /\ \A k \in 1..(Len(attempts) - 1) :
                 Rank(attempts[k].strategy) < Rank(attempts[k + 1].strategy)
          /\ pc \notin (Terminal \cup {"ERROR"}) => ENABLED Next)
    /\ [][PcRank(pc') > PcRank(pc)]_vars

\* C8 witness: a scene failed after all five calls.
C8_Witness ==
    /\ pc = "FAILURE"
    /\ Len(attempts) = 5

Scenes(o) == {n \in SceneNumbers : outcome[n] = o}

\* C3: in a batch run, a scene whose synthesis ends in FAILURE is recorded as
\* a failed per-scene result and every other scene is still processed: the
\* request answers 200 with a report that counts the failed scenes as failed
\* and the successful ones as successful, and no scene is left unprocessed.
\* Stated for storyboards in which every scene has a description.
C3_FailedSceneDoesNotAbortBatch ==
    (/\ batch_pc = "done"
     /\ \A n \in SceneNumbers : described[n]
     /\ Scenes("failure") # {})
        => /\ response.status = 200
           /\ Scenes("none") = {}
           /\ response.failed = Cardinality(Scenes("failure"))
           /\ response.successful = Cardinality(Scenes("success"))

\* C9: assembly processes the clips in ascending scene-number order: once the
\* clips are discovered, the list `scenes` is ordered by scene number, and so
\* is the final video.
C9_NumericSceneOrder ==
    /\ \A j, k \in 1..Len(scenes) :
           j < k => scenes[j].video < scenes[k].video
    /\ \A j, k \in 1..Len(final_output) :
           j < k => final_output[j] < final_output[k]

\* C10: when process_scenes_and_join has returned or raised, no temporary
\* file is left: no concat list and no temp_scene_<k>.mp4. Stated for the
\* temporary clips that were written completely (those in temp_videos).
C10_TempFilesRemoved ==
    asm_pc \in {"returned", "raised"}
        => /\ ~concat_file
           /\ \A k \in 1..Len(temp_videos) : temp_videos[k] \notin temp_files

\* C11: during assembly every temporary clip plays the video of its scene;
\* when sceneN_voiceover.mp3 exists its audio is the narration alone, never a
\* mix, whatever keep_original_audio the caller passed, and the output ends
\* with the shorter track; when it does not exist the clip is the copied
\* video. A final video has exactly one segment per clip of the directory.
C11_NarrationReplacesAudio ==
    /\ \A k \in 1..Len(segments) :
           /\ k <= Len(scenes)
           /\ segments[k].video = scenes[k].video
           /\ IF scenes[k].video \in audio_dir
              THEN segments[k].audio = "narration" /\ segments[k].shortest
              ELSE segments[k].audio = "embedded" /\ ~segments[k].shortest
    /\ final_output # <<>> =>
           /\ Len(final_output) = Cardinality(video_dir)
           /\ \A n \in video_dir :
                  Cardinality({k \in 1..Len(final_output) : final_output[k] = n}) = 1

\* C11 witness: the caller asked to keep the original audio, the directory
\* holds a clip with narration and a clip without, and the final video exists.
C11_Witness ==
    /\ asm_pc = "returned"
    /\ keep_original_audio
    /\ final_output # <<>>
    /\ \E j, k \in 1..Len(segments) :
           segments[j].audio = "narration" /\ segments[k].audio = "embedded"

\* A text without any character that is not whitespace.
OnlyWhitespace(text) == \A k \in 1..Len(text) : text[k] = " "

\* C12: generate_voiceover called with a text that is empty or only
\* whitespace raises before the speech-synthesis service is called and
\* before the audio file of the scene is created or modified, and returns
\* no result.
C12_EmptyTextFails ==
    (nar_scene >= 1 /\ OnlyWhitespace(voice_text))
        => /\ nar_scene \notin tts_calls
           /\ audio_files[nar_scene] \in {"absent", "old"}
           /\ nar_pc \in {"check", "loop", "raised", "done"}
           /\ nar_pc # "check" => ~last_result.success
           /\ (InBatch /\ nar_pc # "check") =>
                  Last(nar_results) = [success |-> FALSE, scene_index |-> nar_scene]

\* C12 witness: a whitespace-only text was refused in the batch and an empty
\* text in a lone call, with an earlier audio file in place.
C12_Witness ==
    /\ OnlyWhitespace(voice_text)
    /\ nar_scene >= 1
    /\ audio_files[nar_scene] = "old"
    /\ \/ InBatch /\ nar_pc = "loop" /\ voice_text # <<>> /\ nar_results # <<>>
       \/ nar_pc = "raised" /\ voice_text = <<>>

\* generate_voiceover has just returned its result for scene nar_scene.
JustReturned ==
    /\ last_result.success
    /\ nar_pc \in {"loop", "returned", "done"}

\* C13: when generate_voiceover returns and a target duration was supplied:
\* audio that was synthesized longer than the target is stored with exactly
\* the target duration and the result is flagged clipped_to_video; audio not
\* longer than the target is stored unmodified and not flagged.
C13_DurationFitting ==
    (JustReturned /\ max_duration # 0)
        => IF synth_duration > max_duration
           THEN /\ true_duration = max_duration
                /\ audio_files[nar_scene] = "trimmed"
                /\ last_result.clipped_to_video
           ELSE /\ true_duration = synth_duration
                /\ audio_files[nar_scene] = "new"
                /\ ~last_result.clipped_to_video

\* C14: in generate_all_voiceovers, a scene whose synthesis failed (the
\* service was called and no complete audio was stored) and a scene whose
\* audio could not be probed for its duration both have a result with
\* success = false; the call never ends with an exception and narrates every
\* scene with a text.
C14_FailedNarrationMarked ==
    InBatch =>
        /\ nar_pc # "raised"
        /\ (nar_pc \in {"loop", "done"} /\ nar_results # <<>>) =>
               LET r == Last(nar_results) IN
               /\ audio_files[r.scene_index] \notin {"new", "trimmed"} => ~r.success
               /\ (r.scene_index = nar_scene /\ true_duration # 0
                   /\ audio_duration = 0) => ~r.success

\* C15: no failure of a text-completion call made by analyze_character_usage
\* leaves it as an exception: character identification, reference-scene
\* selection and the primary-character decision all degrade to defaults, and
\* the analysis goes on to return.
C15_AnalysisNeverRaises == ana_pc # "raised"

\* C16: whatever the text-completion calls answer, analyze_character_usage
\* ends by returning a graph with an entry for every scene of the storyboard;
\* the entry of a scene the service said nothing about has no characters, and
\* the lookup of generate_scene_image finds every scene and falls back to
\* "no character, no references" for an index without an entry.
C16_GraphCoversEveryScene ==
    ana_pc \in {"returned", "raised"} =>
        /\ ana_pc = "returned"
        /\ DOMAIN scene_character_info = SceneIndices
        /\ \A idx \in SceneIndices :
               idx \notin character_mentions
                   => scene_character_info[idx].characters_present = <<>>
        /\ \A n \in 1..NumAnalyzed : Lookup(scene_character_info, n).found
        /\ Lookup(scene_character_info, NumAnalyzed + 1) =
               [found |-> FALSE, include_main_character |-> FALSE,
                reference_scenes |-> <<>>]

\* The precondition of the request is missing: no storyboard in the body, for
\* the slug or at the legacy path; no scene video for the slug or for the
\* default slug.
PreconditionMissing ==
    IF req_endpoint \in StoryboardEndpoints
    THEN ~has_payload /\ ~slug_storyboard /\ ~legacy_storyboard
    ELSE ~slug_videos /\ ~default_videos

\* C17: a request whose precondition is missing is answered with status 404
\* and the handler does no generation or assembly work.
C17_MissingPreconditionIs404 ==
    (req_pc \in {"working", "responded"} /\ PreconditionMissing)
        => req_status = 404 /\ ~req_work

\* The generation request has started and a scene of it has not reached
\* success or recorded failure (the handler has not answered yet).
GenerationRunning == srv_gen \in {"awaiting", "loop", "provider"}

\* C18: while a generation request for the slug is running, the assembly of
\* the same slug has not started or has finished: generate_final_video never
\* lists or reads the clips while a scene of the generation is not terminal.
C18_AssemblyWaitsForGeneration ==
    GenerationRunning => srv_asm \in {"queued", "done"}

\* C19: while the generation request waits for a provider call, another
\* request that has arrived can be served (the call is made off the
\* event-loop thread), and the call can end without the provider's answer
\* (a caller-enforced timeout), so that the wait is bounded.
C19_ProviderCallDoesNotBlock ==
    (srv_gen = "provider" /\ srv_other = "queued") => ENABLED ServeOther

\* C20: in both batch handlers a scene without a scene_description is
\* skipped: no generate_scene_image call is made for it, no image is written
\* for it and it has no result; a skipped scene does not end the batch, and
\* every result carries the 1-based storyboard index of a described scene.
C20_UndescribedSceneSkipped ==
    batch_pc \in {"loop", "done"} =>
        /\ \A n \in SceneNumbers :
               (~described[n] /\ n < i)
                   => /\ outcome[n] = "skipped"
                      /\ images[n] # "new"
                      /\ mirror[n] # "new"
        /\ \A k \in 1..Len(results) : described[results[k].scene]
        /\ \A j, k \in 1..Len(results) :
               j < k => results[j].scene < results[k].scene

\* The components of a path, split at "/" and "\".
RECURSIVE SplitFrom(_, _, _)
SplitFrom(t, cur, acc) ==
    IF t = <<>> THEN Append(acc, cur)
    ELSE IF Head(t) \in {"/", "\\"}
         THEN SplitFrom(Tail(t), <<>>, Append(acc, cur))
         ELSE SplitFrom(Tail(t), Append(cur, Head(t)), acc)

Components(t) == SplitFrom(t, <<>>, <<>>)

\* Walking the components below a base directory leaves the base directory.
RECURSIVE Escapes(_, _)
Escapes(comps, depth) ==
    IF comps = <<>> THEN FALSE
    ELSE IF Head(comps) = <<".", ".">>
         THEN depth = 0 \/ Escapes(Tail(comps), depth - 1)
    ELSE IF Head(comps) \in {<<>>, <<".">>}
         THEN Escapes(Tail(comps), depth)
    ELSE Escapes(Tail(comps), depth + 1)

\* C21: the slug save_draft and get_draft build their directory from holds no
\* path separator and no ".." component, and the directory they make or look
\* up, GENERATED_SCENES_BASE / slug, is not outside GENERATED_SCENES_BASE.
C21_SlugStaysInsideBase ==
    draft_pc \in {"mkdir", "lookup", "responded"} =>
        /\ \A k \in 1..Len(draft_slug) : draft_slug[k] \notin {"/", "\\"}
        /\ ~InSeq(<<".", ".">>, Components(draft_slug))
        /\ draft_root.op # "none" => ~Escapes(Components(draft_root.path), 0)

\* Strategy A was answered with the stop reason IMAGE_OTHER.
ReferencesRejected ==
    attempts # <<>> /\ attempts[1].outcome = "IMAGE_OTHER"

\* ... and the retry was answered with a candidate that stopped normally.
RetryStopped ==
    ReferencesRejected /\ Len(attempts) >= 2 /\ attempts[2].outcome = "STOP"

WritePcs == {"open_out", "write_out", "open_mirror", "write_mirror"}

\* C22: when strategy A returns IMAGE_OTHER the next call is the retry, made
\* once and with no reference image (and made in no other case); when the
\* retry returns a candidate that stopped normally no further strategy is
\* called, a candidate with image data takes the scene to SUCCESS with the
\* image written, and the scene fails only when the candidate has no image
\* data.
C22_RetryWithoutReferences ==
    /\ [](/\ Tried("A_retry") => ReferencesRejected
          /\ ReferencesRejected =>
                /\ Len(attempts) = 1 => pc = "A_retry"
                /\ Len(attempts) >= 2 =>
                       /\ attempts[2].strategy = "A_retry"
                       /\ attempts[2].sent = <<>>
                /\ \A k \in 3..Len(attempts) : attempts[k].strategy # "A_retry"
          /\ RetryStopped =>
                /\ Len(attempts) = 2
                /\ pc \in {"extract", "SUCCESS", "FAILURE"} \cup WritePcs
                /\ pc = "SUCCESS" => images[scene_index] = "new")
    /\ [][RetryStopped =>
            /\ pc \in WritePcs => pc' \in WritePcs \cup {"SUCCESS"}
            /\ pc' = "FAILURE" => pc = "extract"]_vars

\* C22 witness: strategy A sent reference images and was rejected, the retry
\* stopped normally, and the scene succeeded with its image written.
C22_Witness ==
    /\ pc = "SUCCESS"
    /\ Len(attempts) = 2
    /\ attempts[1].outcome = "IMAGE_OTHER"
    /\ attempts[1].sent # <<>>
    /\ attempts[2].outcome = "STOP"
    /\ images[scene_index] = "new"

\* generate_scene_image has built its reference list.
Budgeted == pc \notin {"idle", "analyze", "ERROR"}

\* Scene n is in the advisory reference list of the scene.
Advisory(n) == InSeq(n - 1, reference_scenes)

\* The advisory reference scenes whose image exists.
AdvisoryOnDisk ==
    SelectSeq(reference_scenes, LAMBDA r : Exists(images, r + 1))

\* Scene n is a preceding scene the budgeter is to add when `used` narrative
\* references are already selected.
WantRecent(n, used) ==
    /\ n >= 1
    /\ Exists(images, n)
    /\ ~Advisory(n)
    /\ used < MAX_REFERENCE_IMAGES

\* C23: for every advisory reference list, the empty one included, the
\* budgeter adds the image of scene i-1 and then of scene i-2 when the image
\* exists, the scene is not an advisory reference and the cap of
\* MAX_REFERENCE_IMAGES narrative references is not reached.
C23_PrecedingScenesAdded ==
    Budgeted =>
        LET used == Len(AdvisoryOnDisk)
            first == WantRecent(scene_index - 1, used)
            second == WantRecent(scene_index - 2,
                                 IF first THEN used + 1 ELSE used)
        IN  /\ first => InSeq(ScenePart(scene_index - 1), content_parts)
            /\ second => InSeq(ScenePart(scene_index - 2), content_parts)

C25_MissingReferenceDropped ==
    /\ pc = "analyze" => ENABLED Analyze
    /\ Budgeted =>
        /\ \A k \in 1..Len(content_parts) :
               content_parts[k].kind = "scene"
                   => Exists(images, content_parts[k].n)
        /\ (/\ ~include_main_char
            /\ \A n \in 1..(scene_index - 1) : ~Exists(images, n))
               => content_parts = <<>>
        /\ IF pc = "A" THEN ENABLED StrategyA
           ELSE attempts # <<>>
                    /\ attempts[1].strategy = "A"
                    /\ attempts[1].sent = content_parts

\* C25 witness: the graph names an earlier scene for scene 3, neither its image
\* nor the image of a preceding scene exists, and strategy A was called with
\* no image.
C25_Witness ==
    /\ scene_index = 3
    /\ reference_scenes # <<>>
    /\ \A n \in 1..2 : ~Exists(images, n)
    /\ Tried("A")
    /\ attempts[1].sent = <<>>

\* C26: when the primary character is to appear, every character image is in
\* the reference list, and the scene images selected are the ones selected
\* when no character image is asked for: character images use up none of the
\* MAX_REFERENCE_IMAGES narrative references.
C26_CharacterImagesOutsideCap ==
    (Budgeted /\ include_main_char) =>
        /\ \A k \in 1..NumCharAssets : InSeq(CharPart(k), content_parts)
        /\ SceneRefs(content_parts) =
               SceneRefs(BuildContentParts(scene_index, FALSE,
                                           reference_scenes, images))

\* The elements of a "reference_scenes" list that are JSON integers in
\* [1, k-1], for the scene with 0-based index k-1, as 0-based indices.
IntegersInRange(list, idx) ==
    LET kept == SelectSeq(list, LAMBDA x :
                    x.json = "integer" /\ x.val >= 1 /\ x.val <= idx)
    IN  [k \in 1..Len(kept) |-> kept[k].val - 1]

\* C27: find_character_reference_scenes returns, for scene k, exactly the
\* integers of the answer that lie in [1, k-1] (as 0-based indices, in the
\* order of the answer); values that are not integers and integers out of
\* range are left out, an answer that is not a list or cannot be parsed gives
\* the empty list, and scene 1 gets the empty list without a service call.
C27_ReferenceIndicesFiltered ==
    ref_pc = "returned" =>
        /\ ref_idx = 0 => ref_result = <<>> /\ ref_calls = 0
        /\ ref_reply.kind # "list" => ref_result = <<>>
        /\ (ref_idx > 0 /\ ref_reply.kind = "list")
               => ref_result = IntegersInRange(ref_reply.list, ref_idx)

\* C28: a batch run synthesizes its scenes one at a time in increasing index
\* order: while the loop is at scene i every scene before i has its outcome and
\* no scene from i on has one, each step gives an outcome to scene i alone,
\* writes the images of scene i alone and moves the loop by at most one scene,
\* and the results are in increasing scene order. The synthesis of scene i
\* therefore reads the images of scenes i-1 and i-2 after scene i-1 has ended.
C28_ScenesInIndexOrder ==
    /\ [](/\ batch_pc = "loop" =>
                \A n \in SceneNumbers : n < i <=> outcome[n] # "none"
          /\ \A j, k \in 1..Len(results) :
                j < k => results[j].scene < results[k].scene)
    /\ [][/\ i' \in {i, i + 1}
          /\ \A n \in SceneNumbers :
                 /\ outcome'[n] # outcome[n] => n = i /\ outcome[n] = "none"
                 /\ images'[n] # images[n] => n = i
                 /\ mirror'[n] # mirror[n] => n = i]_vars

\* C28 witness: generate_all_storyboard_images is at scene 3 after scene 1
\* failed and scene 2 succeeded.
C28_Witness ==
    /\ endpoint = "generate_all_storyboard_images"
    /\ batch_pc = "loop"
    /\ i = 3
    /\ outcome[1] = "failure"
    /\ outcome[2] = "success"
    /\ images[2] = "new"

\* The asset key of an operation: the files scene<n>.png of its slug for a
\* synthesis, the files scene<n>_voiceover.mp3 and scene<n>_voiceover.tmp.mp3
\* of its slug for a narration.
OwnedBy(op, p) ==
    /\ p.slug = op.slug
    /\ p.n = op.n
    /\ IF op.kind = "synthesis" THEN p.suffix = ".png"
       ELSE /\ op.kind = "narration"
            /\ p.suffix \in {"_voiceover.mp3", "_voiceover.tmp.mp3"}

\* C29: a step of the synthesis or narration of scene n of a slug creates,
\* changes or removes only files of its own asset key; the files of every
\* other scene and of every other slug stay as they are, and every file that
\* exists was written by an operation that owns it.
C29_DisjointAssetKeys ==
    /\ [](\A p \in AssetPaths :
             asset_files[p] # NoWriter => OwnedBy(asset_files[p], p))
    /\ [][\A p \in AssetPaths :
             asset_files'[p] # asset_files[p] => OwnedBy(asset_op, p)]_vars

\* C29 witness: the narration of scene 1 of a slug has trimmed and replaced
\* its audio while the image of scene 2 of the slug, written before, is in
\* place.
C29_Witness ==
    /\ asset_pc = "ready"
    /\ asset_op = [kind |-> "narration", slug |-> "acme", n |-> 1]
    /\ asset_files[output_path("acme", 1)] = asset_op
    /\ asset_files[trimmed_path("acme", 1)] = NoWriter
    /\ asset_files[scene_image_path("acme", 2)].kind = "synthesis"
    /\ asset_files[scene_path("acme", 2)].kind = "synthesis"

\* The requested slug has no clip, is not "default", and the default slug has
\* a clip.
FallbackCase == ~slug_videos /\ ~slug_is_default /\ default_videos

\* C30: generate_final_video assembles the video and audio directories of the
\* default slug exactly when the requested slug has no clip, is not "default"
\* and the default slug has a clip, and the directories of the requested slug
\* in every other case in which it assembles; the final file is under the
\* requested slug; when the requested slug has clips the default slug's
\* directory is not read.
C30_DefaultSlugFallback ==
    (req_endpoint = "generate_final_video" /\ req_pc \in {"working", "responded"})
        => /\ req_video_dir = "default" <=> FallbackCase
           /\ req_audio_dir = req_video_dir
           /\ final_video_path = "requested"
           /\ req_work <=> (slug_videos \/ FallbackCase)
           /\ slug_videos => ~default_dir_read /\ req_video_dir = "requested"

\* C30 witness: a request for a slug without clips was assembled from the
\* default slug's directories and answered with success.
C30_Witness ==
    /\ req_endpoint = "generate_final_video"
    /\ req_pc = "responded"
    /\ req_status = 200
    /\ ~slug_is_default
    /\ req_video_dir = "default"
    /\ req_audio_dir = "default"
    /\ final_video_path = "requested"

\* The scene numbers without a clip below a scene number that has one.
MissingClips ==
    {n \in 1..MaxSceneNumber : n \notin video_dir /\ \E m \in video_dir : n < m}

\* C31: assembly skips scenes without a clip: whatever subset of the scene
\* numbers has a clip, the discovered list holds the existing clips and
\* nothing else, a missing clip stops no step (combining the next clip and
\* joining can always go on), and when assembly returns the final video plays
\* exactly the existing clips, each once.
C31_MissingClipsSkipped ==
    /\ asm_pc \notin {"idle", "discover"} =>
           /\ Len(scenes) = Cardinality(video_dir)
           /\ {scenes[k].video : k \in 1..Len(scenes)} = video_dir
    /\ (asm_pc = "combine" /\ Len(temp_videos) < Len(scenes)) =>
           ENABLED (CombineScene /\ asm_pc' = "combine")
    /\ asm_pc = "join" => ENABLED (JoinRun /\ asm_pc' = "cleanup")
    /\ (asm_pc = "returned" /\ video_dir # {}) =>
           /\ Len(final_output) = Cardinality(video_dir)
           /\ {final_output[k] : k \in 1..Len(final_output)} = video_dir

\* C31 witness: the directory has clips with a gap between them and assembly
\* returned with a final video.
C31_Witness ==
    /\ asm_pc = "returned"
    /\ MissingClips # {}
    /\ \E m, n \in video_dir : m < n /\ \E g \in MissingClips : m < g /\ g < n
    /\ final_output # <<>>

\* C32: the scraper subprocess is bounded by SCRAPER_TIMEOUT_SECONDS: the
\* request never waits for it longer; once the timeout has passed the wait
\* cannot go on and ends with the subprocess killed (or gone by itself) and
\* status 504; after a timed-out scrape neither the text service nor the
\* image service is called.
C32_ScraperTimeoutBounded ==
    /\ ad_pc = "waiting" => elapsed <= SCRAPER_TIMEOUT_SECONDS
    /\ (ad_pc = "waiting" /\ elapsed >= SCRAPER_TIMEOUT_SECONDS) =>
           /\ ~ENABLED ScraperTick
           /\ ENABLED ScraperTimeout
    /\ ad_status = 504 =>
           /\ ad_pc = "raised"
           /\ scraper \in {"killed", "exited"}
           /\ ad_calls = <<>>
           /\ ~ENABLED NextAds
    /\ scraper = "killed" => ad_status = 504

\* C32 witness: the timeout passed, the subprocess was killed and the request
\* was answered 504.
C32_Witness ==
    /\ ad_status = 504
    /\ scraper = "killed"
    /\ elapsed = SCRAPER_TIMEOUT_SECONDS

\* A field that is absent, or a text that is empty or only whitespace.
FieldMissing(v) ==
    \/ v.kind = "absent"
    \/ v.kind = "text" /\ \A j \in 1..Len(v.text) : v.text[j] = " "

\* An idea that is no object or misses one of its three fields.
Incomplete(idea) ==
    \/ ~idea.isObject
    \/ FieldMissing(idea.title)
    \/ FieldMissing(idea.description)
    \/ FieldMissing(idea.image_prompt)

\* The image calls made so far.
ImageCalls == Cardinality({k \in 1..Len(ad_calls) : ad_calls[k] = "image"})

\* C38: generate_ad_ideas is all-or-nothing: a returned list has exactly
\* AD_IDEA_COUNT results, the k-th made from the k-th idea of the text
\* service, each with a non-empty title, description and image; a request
\* that raised returned no list; ideas are handled in order, and the first
\* incomplete idea, or the first failed image call, ends the request with no
\* image call for a later idea.
C38_AdIdeasAllOrNothing ==
    /\ ad_pc = "returned" =>
           /\ ad_status = 200
           /\ Len(ad_returned) = AD_IDEA_COUNT
           /\ \A k \in 1..AD_IDEA_COUNT :
                  /\ ad_returned[k].title # <<>>
                  /\ ad_returned[k].description # <<>>
                  /\ ad_returned[k].image # <<>>
                  /\ ad_returned[k].title = FieldText(ad_ideas[k].title)
                  /\ ad_returned[k].description = FieldText(ad_ideas[k].description)
                  /\ ad_returned[k].image[2] = FieldText(ad_ideas[k].image_prompt)
    /\ ad_pc # "returned" => ad_returned = <<>>
    /\ ad_pc = "raised" => ad_status \in {500, 502, 504}
    /\ Len(ad_results) <= ImageCalls /\ ImageCalls <= Len(ad_ideas)
    /\ \A k \in 1..Len(ad_ideas) :
           Incomplete(ad_ideas[k]) =>
               /\ k = Len(ad_ideas)
               /\ ad_pc = "raised"
               /\ ImageCalls = k - 1
               /\ Len(ad_results) = k - 1
    /\ Len(ad_results) < ImageCalls =>
           /\ ad_pc = "raised"
           /\ ad_status = 500
           /\ ImageCalls = Len(ad_ideas)
           /\ Len(ad_results) = ImageCalls - 1

\* C38 witness: a request that returned AD_IDEA_COUNT results out of a longer
\* list of ideas, one of them with surrounding whitespace in a field.
C38_Witness ==
    /\ ad_pc = "returned"
    /\ ideas_len > AD_IDEA_COUNT
    /\ Len(ad_returned) = AD_IDEA_COUNT
    /\ ad_returned[1].title # ad_returned[2].title
    /\ \E k \in 1..AD_IDEA_COUNT :
           ad_ideas[k].title.text # ad_returned[k].title

\* C33: an image is written, and success returned, only from a candidate
\* that ended with the normal stop condition: while generate_scene_image
\* writes the image files or has returned success, the finish reason of the
\* candidate the bytes were taken from is STOP (a candidate without any
\* finish reason is taken as not having stopped abnormally).
C33_ImageOnlyFromNormalStop ==
    pc \in WritePcs \cup {"SUCCESS"} => candidate \in {"STOP", "NO_REASON"}

\* C34: after batch narration no audio of a failed narration is left at the
\* canonical path: for every scene whose result is failed, the file
\* scene<N>_voiceover.mp3 is absent or is the file of an earlier run, never
\* the partly written or untrimmed file of the failed attempt.
C34_NoAudioOfFailedNarration ==
    (InBatch /\ nar_pc = "done") =>
        \A k \in 1..Len(nar_results) :
            ~nar_results[k].success =>
                audio_files[nar_results[k].scene_index] \in {"absent", "old"}

\* C35: two assembly runs for different slugs do not interfere: a temporary
\* clip a run has written and not yet removed still plays that run's clip
\* (the other run neither overwrote nor deleted it), the concat list a run
\* joins is the one it wrote, and a final video plays only clips of its own
\* slug, all of them.
C35_ConcurrentRunsIndependent ==
    \A s \in PairSlugs :
        /\ pair_pc[s] \in {"combine", "join", "cleanup"} =>
               \A k \in 1..pair_temp[s] : cwd_temp[k] = ClipOf(s, k)
        /\ pair_pc[s] = "join" => cwd_list = pair_clips[s]
        /\ pair_pc[s] # "raised"
        /\ pair_final[s] # <<>> =>
               pair_final[s] = [k \in 1..pair_clips[s] |-> ClipOf(s, k)]

\* C36: the reference images sent with strategy A never hold the image of
\* one scene twice, whatever the advisory list (several or repeated entries
\* included) and whatever images exist on disk.
C36_NoSceneImageTwice ==
    \A j, k \in 1..Len(content_parts) :
        (/\ j < k
         /\ content_parts[j].kind = "scene"
         /\ content_parts[k].kind = "scene")
            => content_parts[j] # content_parts[k]

\* C37: a failed synthesis leaves the image files untouched: when
\* generate_scene_image has ended in failure (the cascade failed, a response
\* had no candidates, or the candidate carried no image data), no file of
\* either image root was created or written by the call; every file is absent
\* or is still the complete image of an earlier call.
C37_FailedSynthesisTouchesNoFile ==
    pc = "FAILURE" =>
        \A n \in SceneNumbers :
            /\ images[n] \in {"absent", "old"}
            /\ mirror[n] \in {"absent", "old"}

\* C37 witness: the synthesis of a scene that already had an image failed
\* after calls to the image service, and the earlier image is still there.
C37_Witness ==
    /\ pc = "FAILURE"
    /\ attempts # <<>>
    /\ images[scene_index] = "old"

\* The characters a slug may hold ("a" and the letters of "default" stand
\* for a-z, "0" for the digits), and those it may not start or end with.
SlugAlphabet == {"a", "d", "e", "f", "u", "l", "t", "0", ".", "_", "-"}
SlugEdge == {"-", ".", "_"}

\* Nothing of the website is left for a slug: no website, or no letter and
\* no digit after the scheme.
NothingRemains(website) ==
    \/ ~website.given
    \/ \A k \in 1..Len(website.rest) : website.rest[k] \notin {"a", "A", "0"}

WellFormedSlug(slug) ==
    /\ slug # <<>>
    /\ \A k \in 1..Len(slug) : slug[k] \in SlugAlphabet
    /\ slug[1] \notin SlugEdge
    /\ slug[Len(slug)] \notin SlugEdge

\* C39: website_to_slug is total, safe and idempotent: for every website
\* parameter (None, empty and whitespace-only included) the slug is a
\* non-empty text of a-z, 0-9, '.', '_' and '-' that neither starts nor ends
\* with '-', '.' or '_'; it is "default" when nothing remains; and applying
\* website_to_slug to the slug gives the slug again.
C39_WebsiteToSlugSafeIdempotent ==
    /\ web_pc \in {"slugged", "again"} =>
           /\ WellFormedSlug(web_slug)
           /\ NothingRemains(web_arg) => web_slug = DefaultSlug
    /\ web_pc = "again" => web_again = web_slug

\* C39 witness: a website with a scheme, an upper-case letter and a trailing
\* character that is stripped was turned into a slug, and the slug again.
C39_Witness ==
    /\ web_pc = "again"
    /\ web_arg.given /\ web_arg.scheme
    /\ web_slug # DefaultSlug
    /\ web_slug # web_arg.rest
    /\ Len(web_slug) < Len(web_arg.rest)

====
